---- MODULE Spec2Model ----
(***************************************************************************)
(* Model of the multipart upload pipeline of the extension                 *)
(* (src/src/lib/storage.ts, lines 1-298: dataUrlToBlob, uploadPart,        *)
(* uploadScreenshot, uploadScreenshots) together with the credential       *)
(* provider it consumes (src/src/lib/clerk-auth.ts).                       *)
(*                                                                         *)
(* JavaScript runs one handler turn at a time: every action below is one   *)
(* turn, from the arrival of an awaited result (a fetch response, a timer, *)
(* the credential promise) to the next await of the continuation it wakes. *)
(* The coordinator, the storage endpoint and the credential provider are   *)
(* the environment: their answers are drawn with \E.                       *)
(***************************************************************************)
EXTENDS Integers, Sequences, FiniteSets, TLC

\* ---------------------------------------------------------------- bounds
MaxItems == 3          \* longest screenshots list
MaxConcurrency == 2    \* largest concurrency argument
MaxSize == 3           \* largest decoded image, in bytes
PartSize == 2          \* part size of the coordinator's chunking plan, in bytes
MaxFaultyItems == 1    \* items whose requests the environment fails in one run
MaxAttempt == 6        \* largest attempt number the backoff delay is computed for

\* ------------------------------------------------------ program constants
MaxRetries == 3        \* uploadPart(..., maxRetries = 3)
BackoffBase == 1000    \* 1000 * Math.pow(2, attempt)
BackoffCap == 10000    \* Math.min(..., 10000)

\* ---------------------------------------------------------------- helpers
Min(a, b) == IF a <= b THEN a ELSE b

RECURSIVE Pow2(_)
Pow2(n) == IF n = 0 THEN 1 ELSE 2 * Pow2(n - 1)

RECURSIVE SumSeq(_)
SumSeq(s) == IF s = <<>> THEN 0 ELSE Head(s) + SumSeq(Tail(s))

RECURSIVE SumMap(_)
SumMap(m) ==
    IF DOMAIN m = {} THEN 0
    ELSE LET k == CHOOSE x \in DOMAIN m : TRUE
         IN m[k] + SumMap([x \in DOMAIN m \ {k} |-> m[x]])

\* Math.round(x) for x = (200 * u) / (2 * t) >= 0: floor(x + 1/2).
\* A zero denominator gives NaN in the source.
NaN == "NaN"
MathRoundPercent(u, t) == IF t = 0 THEN NaN ELSE (200 * u + t) \div (2 * t)

\* ------------------------------------------------------------ data URLs
\* A data URL is "<prefix>,<body>": mime is what /:(.*?);/ captures in the
\* prefix ("" when the prefix does not match), comma tells whether split(",")
\* yields a second element, bytes is the length of atob(body), or -1 when
\* atob throws on the body.
PngUrl(n) == [mime |-> "image/png", comma |-> TRUE, bytes |-> n]
NoMimeUrl == [mime |-> "", comma |-> TRUE, bytes |-> 1]
BadBase64Url == [mime |-> "image/png", comma |-> TRUE, bytes |-> -1]
NoCommaUrl == [mime |-> "", comma |-> FALSE, bytes |-> 0]

\* A captured screenshot is a non-empty PNG: the smallest and the largest size.
GoodUrls == {PngUrl(1), PngUrl(MaxSize)}
MalformedUrls == {BadBase64Url, NoCommaUrl}
DataUrls == GoodUrls \cup MalformedUrls

DecodeError == "InvalidCharacterError"

\* Mutant: an unparsable prefix is refused
dataUrlToBlobStrict(dataUrl) ==
    IF ~dataUrl.comma \/ dataUrl.bytes < 0 \/ dataUrl.mime = ""
    THEN [ok |-> FALSE, size |-> 0, type |-> "", error |-> DecodeError]
    ELSE [ok |-> TRUE, size |-> dataUrl.bytes, type |-> dataUrl.mime, error |-> ""]

\* Mutant: a body that cannot be decoded gives an empty blob
dataUrlToBlobLenient(dataUrl) ==
    [ok |-> TRUE, size |-> IF dataUrl.bytes < 0 THEN 0 ELSE dataUrl.bytes,
     type |-> IF dataUrl.mime = "" THEN "image/png" ELSE dataUrl.mime,
     error |-> ""]

\* dataUrlToBlob: parts[1] is undefined without a comma, and atob(undefined)
\* throws; an unparsable prefix falls back to "image/png".
dataUrlToBlob(dataUrl) ==
    IF ~dataUrl.comma \/ dataUrl.bytes < 0
    THEN [ok |-> FALSE, size |-> 0, type |-> "", error |-> DecodeError]
    ELSE [ok |-> TRUE, size |-> dataUrl.bytes,
          type |-> IF dataUrl.mime = "" THEN "image/png" ELSE dataUrl.mime,
          error |-> ""]


\* ------------------------------------------------------------ ETag header
\* The ETag response header as a sequence of characters; Quote is '"'.
Quote == "\""
NoHeader == [present |-> FALSE, value |-> <<>>]
Header(v) == [present |-> TRUE, value |-> v]
EtagHeaders == {NoHeader, Header(<<Quote, Quote>>), Header(<<Quote, "e", Quote>>)}

IsNotQuote(c) == c # Quote

\* Mutant: the header's value is used as it came
StripQuotesKept(h) == IF h.present THEN h.value ELSE <<>>

\* uploadResponse.headers.get("ETag")?.replace(/"/g, ""): undefined when the
\* header is absent (modelled as the empty sequence, which is falsy as well).
StripQuotes(h) == IF h.present THEN SelectSeq(h.value, IsNotQuote) ELSE <<>>

\* ----------------------------------------------------------------- errors
\* An Error is the tuple of the pieces of its message.
NoError == <<>>
ErrNoSession == <<"You must be signed in to upload captures">>
ErrNoToken == <<"Failed to obtain authentication token">>
ErrDecode == <<DecodeError>>
ErrFetch == <<"TypeError: Failed to fetch">>
ErrJson == <<"SyntaxError: Unexpected token">>
ErrCreateGeneric == <<"Failed to create upload session">>
ErrCompleteGeneric == <<"Failed to complete upload">>
ErrSign == <<"Failed to get upload URL: ", "Server Error">>
ErrPut(partNumber) == <<"Failed to upload part ", partNumber, ": ", "Server Error">>
ErrMissingETag == <<"Missing ETag in upload response">>
ErrAfterRetries == <<"Failed to upload part after retries">>
ErrSomeFailed == <<"Some screenshots failed to upload">>

\* Bodies of a non-success coordinator response: JSON with an error field,
\* JSON without one, or a body response.json() cannot parse.
ErrorBodies == {[json |-> TRUE, error |-> <<"quota exceeded">>],
                [json |-> TRUE, error |-> <<>>],
                [json |-> FALSE, error |-> <<>>]}
NoBody == [json |-> TRUE, error |-> <<>>]

\* const error = await response.json(); throw new Error(error.error || generic)
ErrorFromBody(body, generic) ==
    IF ~body.json THEN ErrJson
    ELSE IF body.error # <<>> THEN body.error ELSE generic

\* ---------------------------------------------------------------- state
VARIABLES
    screenshots,        \* argument: the list of data URLs
    concurrency,        \* argument: the concurrency limit
    phase,              \* "auth" | "running" | "resolved" | "rejected"
    error,              \* the Error uploadScreenshots rejected with
    authHeaders,        \* result of getAuthHeaders(), <<>> before it
    sizePerScreenshot,  \* sizePerScreenshot[index + 1]
    totalBytes,
    bytesPerScreenshot, \* Map<number, number>, keyed by index
    queue,              \* indexes not yet claimed
    results,            \* results[index + 1], Null or {key, filename}
    workers,            \* the worker() invocations (see NoWorkers)
    progress,           \* argument of the latest onProgress call
    requests,           \* per item, the coordinator requests issued for it
    networkUsed,        \* whether fetch was ever called
    authCalls,          \* calls of getAuthHeaders
    faulty,             \* indexes for which a request was failed so far
    claimed,            \* the indexes queue.shift() returned, in order
    \* background script (src/src/background/index.ts)
    sender,             \* sender.tab?.id of the UPLOAD_SCREENSHOTS message
    handler,            \* the await uploadToAPI is suspended in (see HandlerPcs)
    handlerError,       \* the Error caught by uploadToAPI
    uploadState,        \* the value stored under "uploadState"
    writes,             \* storage.set calls issued and not yet applied, in order
    notifications,      \* chrome.notifications.create calls
    tabMessages,        \* UPLOAD_SUCCESS / UPLOAD_ERROR sent with chrome.tabs.sendMessage
    progressMessages,   \* number of UPLOAD_PROGRESS messages sent to the tab
    finalizeRequests,   \* bodies of the POST finalize-docsend-capture requests
    captures,           \* the captureScreenshot invocations
    attached,           \* whether the debugger is attached to the tab
    plan,               \* the part size of the coordinator's chunking plan
    \* dataUrlToBlob on its own
    encoded,            \* the data URLs handed to dataUrlToBlob, in order
    decoded,            \* what dataUrlToBlob gave for each of them so far
    \* content script (src/src/lib/storage.ts, lines 682-1674)
    doc,                \* the DocSend viewer: page shown, page count, document type
    captureState,       \* const captureState
    runs,               \* the startCapture invocations that passed the guard
    lastStatus,         \* statusData of the latest sendStatusUpdate
    restores,           \* RESTORE_CAPTURE_ZOOM sent without await, not yet answered
    stops,              \* stopCapture invocations so far
    \* capture zoom (src/src/background/index.ts, lines 359-458)
    tabZoom,            \* the zoom factor of each tab
    tabZoomState,       \* const tabZoomState = new Map<number, number>()
    zoomHandlers,       \* the ENSURE / RESTORE handlers, in order of arrival
    \* inline capture button (src/src/popup.tsx)
    button,             \* the React state of CaptureButton
    timers,             \* pending setTimeout callbacks, in the order they were set
    clock,              \* the time, in milliseconds
    dispatched,         \* flow:capture:start / flow:capture:stop events dispatched
    received            \* UPLOAD_SUCCESS / UPLOAD_ERROR messages received

vars == <<screenshots, concurrency, phase, error, authHeaders, sizePerScreenshot,
          totalBytes, bytesPerScreenshot, queue, results, workers, progress,
          requests, networkUsed, authCalls, faulty, claimed, plan>>

inputs == <<screenshots, concurrency, plan>>

uploadVars == <<sender, handler, handlerError, uploadState, writes, notifications,
                tabMessages, progressMessages, finalizeRequests>>
captureVars == <<captures, attached>>
decodeVars == <<encoded, decoded>>
contentVars == <<doc, captureState, runs, lastStatus, restores, stops>>
zoomVars == <<tabZoom, tabZoomState, zoomHandlers>>
popupVars == <<button, timers, clock, dispatched, received>>
otherVars == <<decodeVars, contentVars, zoomVars, popupVars>>
allVars == <<vars, uploadVars, captureVars, otherVars>>

N == Len(screenshots)

Null == [key |-> <<>>, filename |-> <<>>]
NoProgress == [uploadedBytes |-> -1, totalBytes |-> -1, percent |-> -1,
               currentFile |-> -1, totalFiles |-> -1]
NoSession == [uploadId |-> <<>>, key |-> <<>>, partSize |-> 0, totalParts |-> 0]
\* What an observer of the network and of uploadScreenshot sees for one item.
\* create: POST /create requests sent; key: the key the create response carried;
\* complete, abort: the bodies of the PATCH /complete and DELETE /abort requests
\* sent; completeAnswers, abortAnswers: how each of these requests ended;
\* auth: the Authorization headers its coordinator requests carried;
\* failedAttempts: failed uploadPart attempts; attempts: the sign requests of
\* the part whose uploadPart threw; fate: how uploadScreenshot ended ("" while
\* it has not), thrown: the Error it threw; signs: GET /sign requests sent;
\* puts: PUT requests sent; reported: the `uploaded` argument
\* of each call of the per-file progress callback.
NoRequests == [create |-> 0, auth |-> {}, key |-> <<>>, complete |-> <<>>, abort |-> <<>>,
               completeAnswers |-> <<>>, abortAnswers |-> <<>>,
               failedAttempts |-> 0, attempts |-> 0, fate |-> "", thrown |-> NoError,
               signs |-> 0, puts |-> 0, reported |-> <<>>]

\* `page_${index + 1}.png`
Filename(index) == <<"page_", index + 1, ".png">>

\* A worker() invocation. pc names the await it is suspended in:
\*   "create" | "sign" | "put" | "backoff" | "complete" | "abort",
\* or "done" (returned) or "failed" (threw).
IdleWorker(pc) ==
    [pc |-> pc, index |-> -1, size |-> 0, session |-> NoSession, partNumber |-> 0,
     attempt |-> 0, completedParts |-> <<>>, lastError |-> NoError,
     delay |-> 0, signs |-> 0, puts |-> 0, failed |-> 0, finalizeBody |-> NoBody,
     url |-> <<>>]

InFlightPcs == {"create", "sign", "put", "backoff", "complete", "abort"}

\* The array `workers` of worker() promises. worker() reads nothing that tells
\* one invocation from another, so the pending ones are kept by the index they
\* are uploading (an invocation uploads one index at a time), and the settled
\* ones are counted.
NoWorkers == [running |-> <<>>, fulfilled |-> 0, rejected |-> 0]

MapRemove(m, k) == [x \in (DOMAIN m) \ {k} |-> m[x]]

\* The array after the invocation that was uploading `index` (-1: a new
\* invocation) has ended its turn as w.
PutWorker(ws, index, w) ==
    LET rest == MapRemove(ws.running, index) IN
    IF w.pc = "done" THEN [ws EXCEPT !.running = rest, !.fulfilled = @ + 1]
    ELSE IF w.pc = "failed" THEN [ws EXCEPT !.running = rest, !.rejected = @ + 1]
    ELSE [ws EXCEPT !.running = [x \in (DOMAIN rest) \cup {w.index} |->
                                    IF x = w.index THEN w ELSE rest[x]]]

NumSpawned(ws) == Cardinality(DOMAIN ws.running) + ws.fulfilled + ws.rejected


\* ------------------------------------------------- one handler turn: context
\* The operators below are the pieces of uploadPart, uploadScreenshot and
\* worker between two awaits. They transform a context c: the worker's own
\* record c.w, the shared objects of uploadScreenshots, and c.threw, the
\* Error the worker's promise rejects with in this turn (NoError if none).
Ctx(w) ==
    [w |-> w, queue |-> queue, bytes |-> bytesPerScreenshot, results |-> results,
     requests |-> requests, progress |-> progress, threw |-> NoError,
     authHeaders |-> authHeaders, claimed |-> claimed]

\* Mutant: the auth headers are not spread into the request's headers
JsonHeadersOnly(headers) ==
    [Authorization |-> <<>>, ContentType |-> "application/json"]

\* headers: { ...authHeaders, "Content-Type": "application/json" }
JsonHeaders(headers) ==
    [Authorization |-> headers.Authorization, ContentType |-> "application/json"]

\* The observer's note of the headers of a coordinator request for the file
\* the worker is uploading
Sent(c, headers) ==
    [c EXCEPT !.requests[c.w.index + 1].auth = @ \cup {headers.Authorization}]

\* GET /api/upload/sign?key&uploadId&partNumber with headers: authHeaders
SignIssued(c) ==
    Sent([c EXCEPT !.requests[c.w.index + 1].signs = @ + 1], c.authHeaders)

\* Mutant: the value is added to the one already stored
MapSetAdded(m, k, v) ==
    [x \in (DOMAIN m) \cup {k} |->
        IF x = k THEN v + (IF k \in DOMAIN m THEN m[k] ELSE 0) ELSE m[x]]

\* Map.prototype.set
MapSet(m, k, v) == [x \in (DOMAIN m) \cup {k} |-> IF x = k THEN v ELSE m[x]]

\* uploadScreenshot throws at `step`; worker: catch (error) { console.error(...);
\* throw error }, so the worker's promise rejects
Throw(c, step, err) ==
    [c EXCEPT !.w = IdleWorker("failed"), !.threw = err,
              !.requests[c.w.index + 1].fate = step,
              !.requests[c.w.index + 1].thrown = err]

\* uploadScreenshot up to its first await: decode, then POST /api/upload/create
uploadScreenshotBegin(c, index) ==
    LET blob == dataUrlToBlob(screenshots[index + 1]) IN
    IF ~blob.ok
    THEN Throw([c EXCEPT !.w.index = index], "decode failed", <<blob.error>>)
    ELSE Sent([c EXCEPT !.w = [IdleWorker("create") EXCEPT !.index = index,
                                                           !.size = blob.size],
                        !.requests[index + 1].create = @ + 1],
              JsonHeaders(c.authHeaders))

\* Mutant: queue.pop() instead of queue.shift()
WorkerLoopPop(c) ==
    IF Len(c.queue) > 0
    THEN uploadScreenshotBegin([c EXCEPT !.queue = SubSeq(@, 1, Len(@) - 1),
                                         !.claimed = Append(@, c.queue[Len(c.queue)])],
                               c.queue[Len(c.queue)])
    ELSE [c EXCEPT !.w = IdleWorker("done")]

\* worker: while (queue.length > 0) { const index = queue.shift()! ... }
WorkerLoop(c) ==
    IF Len(c.queue) > 0
    THEN uploadScreenshotBegin([c EXCEPT !.queue = Tail(@),
                                         !.claimed = Append(@, Head(c.queue))],
                               Head(c.queue))
    ELSE [c EXCEPT !.w = IdleWorker("done")]

\* uploadPart up to its first await: attempt = 0, GET /api/upload/sign
uploadPartBegin(w, partNumber) ==
    [w EXCEPT !.pc = "sign", !.partNumber = partNumber, !.attempt = 0,
              !.lastError = NoError, !.delay = 0, !.signs = 1, !.puts = 0,
              !.failed = 0, !.url = <<>>]

\* completedParts.sort((a, b) => a.PartNumber - b.PartNumber): insertion sort
RECURSIVE InsertPart(_, _)
InsertPart(sorted, part) ==
    IF sorted = <<>> THEN <<part>>
    ELSE IF part.PartNumber < Head(sorted).PartNumber THEN <<part>> \o sorted
    ELSE <<Head(sorted)>> \o InsertPart(Tail(sorted), part)

RECURSIVE SortParts(_)
SortParts(parts) ==
    IF parts = <<>> THEN <<>>
    ELSE InsertPart(SortParts(SubSeq(parts, 1, Len(parts) - 1)), parts[Len(parts)])

\* PATCH /api/upload/complete {key, uploadId, parts}
IssueComplete(c) ==
    Sent([c EXCEPT !.w.pc = "complete",
                   !.requests[c.w.index + 1].complete =
                       Append(@, [key |-> c.w.session.key,
                                  uploadId |-> c.w.session.uploadId,
                                  parts |-> SortParts(c.w.completedParts)])],
         JsonHeaders(c.authHeaders))

\* Mutant: partNumber < totalParts, the last part is never uploaded
PartLoopShort(c, partNumber) ==
    IF partNumber < c.w.session.totalParts
    THEN SignIssued([c EXCEPT !.w = uploadPartBegin(c.w, partNumber)])
    ELSE IssueComplete(c)

\* for (let partNumber = 1; partNumber <= totalParts; partNumber++) { ... }
PartLoop(c, partNumber) ==
    IF partNumber <= c.w.session.totalParts
    THEN SignIssued([c EXCEPT !.w = uploadPartBegin(c.w, partNumber)])
    ELSE IssueComplete(c)

\* if (attempt < maxRetries - 1): whether a delay and another attempt follow
ShouldRetry(attempt) == attempt < MaxRetries - 1

\* Mutant: the same delay before every retry
BackoffDelayFixed(attempt) == BackoffBase

\* Math.min(1000 * Math.pow(2, attempt), 10000)
BackoffDelay(attempt) == Min(BackoffBase * Pow2(attempt), BackoffCap)

\* Mutant: one attempt fewer
LoopContinuesShort(attempt) == attempt < MaxRetries - 1

\* Mutant: one attempt more
LoopContinuesLong(attempt) == attempt <= MaxRetries

\* for (...; attempt < maxRetries; ...): whether another attempt is made
LoopContinues(attempt) == attempt < MaxRetries

\* attempt++ and the loop test: the next GET /api/upload/sign, or
\* throw lastError || new Error("Failed to upload part after retries")
NextAttempt(c) ==
    LET w == c.w IN
    IF LoopContinues(w.attempt + 1)
    THEN SignIssued([c EXCEPT !.w.pc = "sign", !.w.attempt = @ + 1, !.w.signs = @ + 1])
    ELSE Throw([c EXCEPT !.requests[w.index + 1].attempts = w.signs],
               "part failed",
               IF w.lastError # NoError THEN w.lastError ELSE ErrAfterRetries)

\* Mutant: a failed attempt gives the part up and goes on with the next part
AttemptFailedSkipsPart(c, err) ==
    LET w == [c.w EXCEPT !.lastError = err, !.failed = @ + 1]
        c1 == [c EXCEPT !.w = w, !.requests[w.index + 1].failedAttempts = @ + 1]
    IN PartLoop(c1, w.partNumber + 1)

\* catch (error) in uploadPart: remember the error, then back off before the
\* next turn of the loop, or take it at once
AttemptFailed(c, err) ==
    LET w == [c.w EXCEPT !.lastError = err, !.failed = @ + 1]
        c1 == [c EXCEPT !.w = w, !.requests[w.index + 1].failedAttempts = @ + 1]
    IN IF ShouldRetry(w.attempt)
       THEN [c1 EXCEPT !.w.pc = "backoff", !.w.delay = BackoffDelay(w.attempt)]
       ELSE NextAttempt(c1)

\* Mutant: the bytes of this part alone instead of the bytes so far
UploadedEstimateOfPart(partNumber, partSize, size) ==
    Min(partSize, size - (partNumber - 1) * partSize)

\* Mutant: the bytes so far, not capped at the size of the file
UploadedEstimateUncapped(partNumber, partSize, size) == partNumber * partSize

\* const uploaded = Math.min(partNumber * partSize, size)
UploadedEstimate(partNumber, partSize, size) == Min(partNumber * partSize, size)

\* Mutant: currentFile counts the files whose result is stored
OnFileProgressCompleted(c, index, uploaded) ==
    LET bytes == MapSet(c.bytes, index, uploaded)
        totalUploaded == SumMap(bytes)
    IN [c EXCEPT !.bytes = bytes,
                 !.progress = [uploadedBytes |-> totalUploaded,
                               totalBytes |-> totalBytes,
                               percent |-> MathRoundPercent(totalUploaded, totalBytes),
                               currentFile |->
                                   Cardinality({i \in DOMAIN c.results :
                                                   c.results[i] # Null}),
                               totalFiles |-> N]]

\* Mutant: the total is accumulated from the values reported
OnFileProgressAccumulated(c, index, uploaded) ==
    LET bytes == MapSet(c.bytes, index, uploaded)
        totalUploaded == uploaded + (IF c.progress = NoProgress THEN 0
                                     ELSE c.progress.uploadedBytes)
    IN [c EXCEPT !.bytes = bytes,
                 !.progress = [uploadedBytes |-> totalUploaded,
                               totalBytes |-> totalBytes,
                               percent |-> MathRoundPercent(totalUploaded, totalBytes),
                               currentFile |-> Cardinality(DOMAIN bytes),
                               totalFiles |-> N]]

\* Mutant: currentFile is the position of the file that reports
OnFileProgressPosition(c, index, uploaded) ==
    LET bytes == MapSet(c.bytes, index, uploaded)
        totalUploaded == SumMap(bytes)
    IN [c EXCEPT !.bytes = bytes,
                 !.progress = [uploadedBytes |-> totalUploaded,
                               totalBytes |-> totalBytes,
                               percent |-> MathRoundPercent(totalUploaded, totalBytes),
                               currentFile |-> index + 1,
                               totalFiles |-> N]]

\* The callback worker passes to uploadScreenshot (lines 247-264)
OnFileProgress(c, index, uploaded) ==
    LET bytes == MapSet(c.bytes, index, uploaded)
        totalUploaded == SumMap(bytes)
    IN [c EXCEPT !.bytes = bytes,
                 !.progress = [uploadedBytes |-> totalUploaded,
                               totalBytes |-> totalBytes,
                               percent |-> MathRoundPercent(totalUploaded, totalBytes),
                               currentFile |-> Cardinality(DOMAIN bytes),
                               totalFiles |-> N]]

\* uploadPart returned: push the part, report progress, go on with the loop
PartUploaded(c, etag) ==
    LET w == c.w
        part == [PartNumber |-> w.partNumber, ETag |-> etag]
        c1 == [c EXCEPT !.w.completedParts = Append(@, part)]
        uploaded == UploadedEstimate(w.partNumber, w.session.partSize, w.size)
        c2 == OnFileProgress([c1 EXCEPT !.requests[w.index + 1].reported =
                                            Append(@, uploaded)],
                             w.index, uploaded)
    IN PartLoop(c2, w.partNumber + 1)

\* Mutant: results.push(entry), the results in completion order
StoreResultPushed(res, index, entry) ==
    LET free == {i \in DOMAIN res : res[i] = Null}
        first == CHOOSE i \in free : \A j \in free : i <= j
    IN [res EXCEPT ![first] = entry]

\* results[index] = { key, filename }
StoreResult(res, index, entry) == [res EXCEPT ![index + 1] = entry]

\* uploadScreenshot returned key: store the result, mark the file as fully
\* uploaded, and take the next index
FileUploaded(c) ==
    LET w == c.w IN
    WorkerLoop([c EXCEPT
        !.requests[w.index + 1].fate = "uploaded",
        !.results = StoreResult(@, w.index,
                                [key |-> w.session.key, filename |-> Filename(w.index)]),
        !.bytes = MapSet(@, w.index, sizePerScreenshot[w.index + 1])])


\* ------------------------------------------------------- uploadScreenshots
\* Mutant: one worker per screenshot, whatever the concurrency limit
NumWorkersUnbounded(c, n) == n

\* const numWorkers = Math.min(concurrency, screenshots.length)
NumWorkers(c, n) == Min(c, n)

\* Array.from({ length }, worker): ToLength clamps a negative length to 0
ArrayFromLength(len) == IF len < 0 THEN 0 ELSE len

\* Array.from({ length: numWorkers }, worker) calls worker() numWorkers times,
\* each call running up to its first await; ws collects the invocations.
RECURSIVE Spawn(_, _, _)
Spawn(n, c, ws) ==
    IF n = 0 THEN [c |-> c, ws |-> ws]
    ELSE LET c1 == WorkerLoop(c)
         IN Spawn(n - 1, [c1 EXCEPT !.threw = IF c.threw # NoError THEN c.threw ELSE @],
                  PutWorker(ws, -1, c1.w))

\* Mutant: Promise.allSettled without the check of results
AwaitAllLenient(ph, err, ws, res, threw) ==
    IF ph # "running" THEN [phase |-> ph, error |-> err]
    ELSE IF DOMAIN ws.running = {} THEN [phase |-> "resolved", error |-> NoError]
    ELSE [phase |-> ph, error |-> err]

\* Mutant: the batch settles only once every worker has settled
AwaitAllSettled(ph, err, ws, res, threw) ==
    IF ph # "running" THEN [phase |-> ph, error |-> err]
    ELSE IF DOMAIN ws.running # {} THEN [phase |-> ph, error |-> err]
    ELSE IF ws.rejected > 0 \/ \E i \in DOMAIN res : res[i] = Null
         THEN [phase |-> "rejected",
               error |-> IF threw # NoError THEN threw ELSE ErrSomeFailed]
    ELSE [phase |-> "resolved", error |-> NoError]

\* Mutant: the batch resolves only when some worker has fulfilled
AwaitAllNeedsWorker(ph, err, ws, res, threw) ==
    IF ph # "running" THEN [phase |-> ph, error |-> err]
    ELSE IF threw # NoError THEN [phase |-> "rejected", error |-> threw]
    ELSE IF DOMAIN ws.running = {} /\ ws.rejected = 0 /\ ws.fulfilled > 0
         THEN IF \E i \in DOMAIN res : res[i] = Null
              THEN [phase |-> "rejected", error |-> ErrSomeFailed]
              ELSE [phase |-> "resolved", error |-> NoError]
    ELSE [phase |-> ph, error |-> err]

\* Mutant: the array is returned as soon as every worker has fulfilled
AwaitAllUnchecked(ph, err, ws, res, threw) ==
    IF ph # "running" THEN [phase |-> ph, error |-> err]
    ELSE IF threw # NoError THEN [phase |-> "rejected", error |-> threw]
    ELSE IF DOMAIN ws.running = {} /\ ws.rejected = 0
         THEN [phase |-> "resolved", error |-> NoError]
    ELSE [phase |-> ph, error |-> err]

\* Mutant: Promise.race, the batch settles with the first worker that does
AwaitAllRace(ph, err, ws, res, threw) ==
    IF ph # "running" THEN [phase |-> ph, error |-> err]
    ELSE IF threw # NoError THEN [phase |-> "rejected", error |-> threw]
    ELSE IF ws.fulfilled > 0 \/ DOMAIN ws.running = {}
         THEN IF \E i \in DOMAIN res : res[i] = Null /\ DOMAIN ws.running = {}
              THEN [phase |-> "rejected", error |-> ErrSomeFailed]
              ELSE [phase |-> "resolved", error |-> NoError]
    ELSE [phase |-> ph, error |-> err]

\* await Promise.all(workers), then the check of results: the state of the
\* promise uploadScreenshots returned, after a turn in which a worker
\* rejected with threw (NoError if none did).
AwaitAll(ph, err, ws, res, threw) ==
    IF ph # "running" THEN [phase |-> ph, error |-> err]
    ELSE IF threw # NoError THEN [phase |-> "rejected", error |-> threw]
    ELSE IF DOMAIN ws.running = {} /\ ws.rejected = 0
         THEN IF \E i \in DOMAIN res : res[i] = Null
              THEN [phase |-> "rejected", error |-> ErrSomeFailed]
              ELSE [phase |-> "resolved", error |-> NoError]
    ELSE [phase |-> ph, error |-> err]

\* The coordinator's answer to POST /api/upload/create {filename, mime, size}:
\* a session of its own naming, chunked into parts of PartSize bytes.
Ceil(a, b) == (a + b - 1) \div b
NewSession(filename, size) ==
    [uploadId |-> <<"upload-id", filename>>, key |-> <<"key", filename>>,
     partSize |-> plan, totalParts |-> Ceil(size, plan)]

Tokens == {"token-a", "token-b"}
Bearer(token) == [Authorization |-> <<"Bearer ", token>>]

\* uploadScreenshots has not been called
NotCalled ==
    /\ phase = "idle"
    /\ error = NoError
    /\ authHeaders = <<>>
    /\ sizePerScreenshot = <<>>
    /\ totalBytes = 0
    /\ bytesPerScreenshot = <<>>
    /\ queue = <<>>
    /\ results = <<>>
    /\ workers = NoWorkers
    /\ progress = NoProgress
    /\ requests = [i \in 1..Len(screenshots) |-> NoRequests]
    /\ networkUsed = FALSE
    /\ authCalls = 0
    /\ faulty = {}
    /\ claimed = <<>>

\* ------------------------------------------------ background: uploadToAPI
\* sender.tab?.id: undefined (the empty tuple), or the id of a tab (chrome tab
\* ids are positive)
NoTab == <<>>
TabIds == {<<1>>}
Senders == {NoTab} \cup TabIds

\* Mutant: the guard on the tab id is missing
HasTabAlways(tab) == TRUE

\* const tabId = sender.tab?.id; if (!tabId) { ...; return }
HasTab(tab) == tab # NoTab /\ tab # <<0>>

\* "idle": no message yet; "ignored": returned at the tab guard; "init": await
\* updateUploadState (line 184); "uploading": await uploadScreenshots; "auth":
\* await getAuthHeaders (233); "finalize": await fetch and json (234-252);
\* "success": await updateUploadState (256); "error": await updateUploadState
\* (300); "done": returned.
HandlerPcs == {"idle", "ignored", "init", "uploading", "auth", "finalize",
               "success", "error", "done"}

\* The value under "uploadState": nothing stored, or an UploadState (url, the
\* same in every write, is left out; error is NoError when the field is absent)
NoState == [stored |-> FALSE, isUploading |-> FALSE, currentFile |-> 0,
            totalFiles |-> 0, percent |-> 0, error |-> NoError]
UploadState(isUploading, currentFile, totalFiles, percent, err) ==
    [stored |-> TRUE, isUploading |-> isUploading, currentFile |-> currentFile,
     totalFiles |-> totalFiles, percent |-> percent, error |-> err]

\* updateUploadState(state): storage.set("uploadState", state) is issued; the
\* caller `waiter` goes on once the write has been applied
UpdateUploadState(pending, state, waiter) ==
    Append(pending, [state |-> state, waiter |-> waiter])

ErrFinalizeGeneric == <<"Failed to finalize capture">>

\* Mutant: the success state is written with isUploading still true
SuccessStateUploading(n) == UploadState(TRUE, n, n, 100, NoError)

\* updateUploadState({ isUploading: false, currentFile: length, totalFiles:
\* length, percent: 100, url })
SuccessState(n) == UploadState(FALSE, n, n, 100, NoError)

\* updateUploadState({ isUploading: false, currentFile: 0, totalFiles: length,
\* percent: 0, url, error: errorMessage })
ErrorState(n, errorMessage) == UploadState(FALSE, 0, n, 0, errorMessage)

\* updateUploadState({ isUploading: true, currentFile, totalFiles, percent, url })
ProgressState(p) == UploadState(TRUE, p.currentFile, p.totalFiles, p.percent, NoError)

SuccessNotification == [title |-> "DocSend Capture Complete", message |-> <<>>]
ErrorNotification(errorMessage) ==
    [title |-> "DocSend Upload Failed", message |-> errorMessage]
UploadSuccess == [type |-> "UPLOAD_SUCCESS", error |-> NoError]
UploadError(errorMessage) == [type |-> "UPLOAD_ERROR", error |-> errorMessage]

\* No UPLOAD_SCREENSHOTS message has arrived
NoUpload ==
    /\ sender = NoTab
    /\ handler = "idle"
    /\ handlerError = NoError
    /\ uploadState = NoState
    /\ writes = <<>>
    /\ notifications = <<>>
    /\ tabMessages = <<>>
    /\ progressMessages = 0
    /\ finalizeRequests = <<>>

\* No CAPTURE_SCREENSHOT message has arrived
NoCaptures ==
    /\ captures = <<>>
    /\ attached = FALSE

\* dataUrlToBlob is not under study on its own
NoDecodes ==
    /\ encoded = <<>>
    /\ decoded = <<>>

\* const captureState: screenshots is the length of the screenshots array,
\* totalPages is <<>> for null and <<n>> for n, error is NoError for undefined
InitialCaptureState ==
    [isCapturing |-> FALSE, currentPage |-> 0, totalPages |-> <<>>,
     screenshots |-> 0, capturedCount |-> 0, error |-> NoError,
     zoomAdjusted |-> FALSE]

\* statusData of sendStatusUpdate
StatusData(cs) ==
    [isCapturing |-> cs.isCapturing, currentPage |-> cs.currentPage,
     totalPages |-> cs.totalPages, capturedCount |-> cs.capturedCount,
     error |-> cs.error]

\* No capture was started
NoRuns ==
    /\ captureState = InitialCaptureState
    /\ runs = <<>>
    /\ lastStatus = StatusData(InitialCaptureState)
    /\ restores = 0
    /\ stops = 0

\* The content script is not under study
NoContent ==
    /\ doc = [page |-> 1, pages |-> 1, vertical |-> FALSE]
    /\ NoRuns

\* ------------------------------------------------------------ capture zoom
\* Zoom factors are counted in thousandths: 1000 is the factor 1
DefaultZoom == 1000       \* chrome.tabs.setZoom(tabId, 1)
ZoomTolerance == 10       \* Math.abs(currentZoom - 1) <= 0.01

\* No zoom message was handled: no tab has an entry in tabZoomState
NoZoom ==
    /\ tabZoom = [t \in TabIds |-> DefaultZoom]
    /\ tabZoomState = <<>>
    /\ zoomHandlers = <<>>

\* -------------------------------------------------- inline capture button
\* useState of CaptureButton: status, uploadState ("idle" at first) and
\* uploadError
InitialButton ==
    [status |-> [isCapturing |-> FALSE, currentPage |-> 0, totalPages |-> <<>>,
                 capturedCount |-> 0, error |-> NoError],
     uploadState |-> "idle", uploadError |-> ""]

\* The button was rendered and nothing has happened to it
NoButton ==
    /\ button = InitialButton
    /\ timers = <<>>
    /\ clock = 0
    /\ dispatched = <<>>
    /\ received = 0

\* Nothing but the part under study is running
NoOther == NoDecodes /\ NoContent /\ NoZoom /\ NoButton

Init ==
    /\ screenshots \in UNION {[1..n -> DataUrls] : n \in 0..MaxItems}
    /\ concurrency \in 0..MaxConcurrency
    /\ plan = PartSize
    /\ NotCalled
    /\ NoUpload
    /\ NoCaptures
    /\ NoOther

\* uploadScreenshots(screenshots, onProgress, concurrency) is called and
\* suspends in await getAuthHeaders()
Call ==
    /\ phase = "idle"
    /\ phase' = "auth"
    /\ authCalls' = authCalls + 1
    /\ UNCHANGED <<inputs, error, authHeaders, sizePerScreenshot, totalBytes,
                   bytesPerScreenshot, queue, results, workers, progress, requests,
                   networkUsed, faulty, claimed>>

\* Mutant: the credential error is replaced by the batch's generic error
AuthRejectedWrapped(err) ==
    /\ phase = "auth"
    /\ phase' = "rejected"
    /\ error' = ErrSomeFailed
    /\ UNCHANGED <<inputs, authHeaders, sizePerScreenshot, totalBytes,
                   bytesPerScreenshot, queue, results, workers, progress, requests,
                   networkUsed, authCalls, faulty, claimed>>

\* getAuthHeaders throws: no session, or no token
AuthRejected(err) ==
    /\ phase = "auth"
    /\ phase' = "rejected"
    /\ error' = err
    /\ UNCHANGED <<inputs, authHeaders, sizePerScreenshot, totalBytes,
                   bytesPerScreenshot, queue, results, workers, progress, requests,
                   networkUsed, authCalls, faulty, claimed>>

\* getAuthHeaders returns: lines 218-297 up to await Promise.all(workers)
AuthResolved(token) ==
    /\ phase = "auth"
    /\ authHeaders' = Bearer(token)
    /\ LET blobs == [i \in 1..N |-> dataUrlToBlob(screenshots[i])] IN
       IF \E i \in 1..N : ~blobs[i].ok
       THEN /\ phase' = "rejected"
            /\ error' = <<blobs[CHOOSE i \in 1..N :
                                  /\ ~blobs[i].ok
                                  /\ \A j \in 1..(i - 1) : blobs[j].ok].error>>
            /\ UNCHANGED <<sizePerScreenshot, totalBytes, bytesPerScreenshot, queue,
                           results, workers, progress, requests, networkUsed,
                           claimed>>
       ELSE LET sizes == [i \in 1..N |-> blobs[i].size]
                c0 == [w |-> IdleWorker("done"), queue |-> [i \in 1..N |-> i - 1],
                       bytes |-> <<>>, results |-> [i \in 1..N |-> Null],
                       requests |-> requests, progress |-> progress,
                       threw |-> NoError, authHeaders |-> Bearer(token),
                       claimed |-> <<>>]
                numWorkers == NumWorkers(concurrency, N)
                sp == Spawn(ArrayFromLength(numWorkers), c0, NoWorkers)
                settled == AwaitAll("running", NoError, sp.ws, sp.c.results, sp.c.threw)
            IN /\ sizePerScreenshot' = sizes
               /\ totalBytes' = SumSeq(sizes)
               /\ bytesPerScreenshot' = sp.c.bytes
               /\ queue' = sp.c.queue
               /\ results' = sp.c.results
               /\ workers' = sp.ws
               /\ progress' = sp.c.progress
               /\ requests' = sp.c.requests
               /\ claimed' = sp.c.claimed
               /\ networkUsed' = (\E i \in 1..N : sp.c.requests[i].create > 0)
               /\ phase' = settled.phase
               /\ error' = settled.error
    /\ UNCHANGED <<inputs, authCalls, faulty>>

\* The end of a turn of the worker uploading index k: its context becomes the
\* state, and the batch promise settles if this turn decided it.
Apply(k, c) ==
    LET ws == PutWorker(workers, k, c.w)
        settled == AwaitAll(phase, error, ws, c.results, c.threw)
    IN /\ workers' = ws
       /\ queue' = c.queue
       /\ bytesPerScreenshot' = c.bytes
       /\ results' = c.results
       /\ requests' = c.requests
       /\ progress' = c.progress
       /\ claimed' = c.claimed
       /\ phase' = settled.phase
       /\ error' = settled.error
       /\ UNCHANGED <<inputs, authHeaders, sizePerScreenshot, totalBytes,
                      networkUsed, authCalls>>

\* A failing answer of the environment to a request for index k: the run's
\* failures hit at most MaxFaultyItems items.
Fault(k) ==
    /\ k \in faulty \/ Cardinality(faulty) < MaxFaultyItems
    /\ faulty' = faulty \cup {k}
NoFault == UNCHANGED faulty

\* POST /api/upload/create answered ok
CreateOk(k) ==
    /\ workers.running[k].pc = "create"
    /\ LET w == workers.running[k]
           session == NewSession(Filename(w.index), w.size)
           c == Ctx([w EXCEPT !.session = session])
       IN Apply(k, PartLoop([c EXCEPT !.requests[w.index + 1].key = session.key], 1))
    /\ NoFault

\* POST /api/upload/create answered with a non-success status and `body`
CreateNotOk(k, body) ==
    /\ workers.running[k].pc = "create"
    /\ Apply(k, Throw(Ctx(workers.running[k]), "create failed",
                      ErrorFromBody(body, ErrCreateGeneric)))
    /\ Fault(k)

\* The URL in the answer to the sign request of attempt `attempt` for part
\* `partNumber`: the coordinator signs a new URL for every request
SignedUrl(partNumber, attempt) == <<"signed-url", partNumber, attempt>>

\* Mutant: the first URL signed for the part is kept for its later attempts
PutIssuedCachedUrl(c, url) ==
    LET used == IF c.w.url # <<>> THEN c.w.url ELSE url IN
    [c EXCEPT !.w.pc = "put", !.w.puts = @ + 1, !.w.url = used,
              !.requests[c.w.index + 1].puts = @ + 1]

\* const { url } = await signResponse.json(); fetch(url, { method: "PUT", ... })
PutIssued(c, url) ==
    [c EXCEPT !.w.pc = "put", !.w.puts = @ + 1, !.w.url = url,
              !.requests[c.w.index + 1].puts = @ + 1]

\* GET /api/upload/sign answered ok: PUT the part to the signed URL
SignOk(k) ==
    /\ workers.running[k].pc = "sign"
    /\ LET w == workers.running[k]
       IN Apply(k, PutIssued(Ctx(w), SignedUrl(w.partNumber, w.attempt)))
    /\ NoFault

\* GET /api/upload/sign answered with a non-success status
SignNotOk(k) ==
    /\ workers.running[k].pc = "sign"
    /\ Apply(k, AttemptFailed(Ctx(workers.running[k]), ErrSign))
    /\ Fault(k)

\* PUT answered ok with the ETag header `header`
PutOk(k, header) ==
    /\ workers.running[k].pc = "put"
    /\ LET etag == StripQuotes(header) IN
       IF etag = <<>>
       THEN /\ Apply(k, AttemptFailed(Ctx(workers.running[k]), ErrMissingETag))
            /\ Fault(k)
       ELSE /\ Apply(k, PartUploaded(Ctx(workers.running[k]), etag))
            /\ NoFault

\* PUT answered with a non-success status
PutNotOk(k) ==
    /\ workers.running[k].pc = "put"
    /\ Apply(k, AttemptFailed(Ctx(workers.running[k]), ErrPut(workers.running[k].partNumber)))
    /\ Fault(k)

\* The backoff timer fires
BackoffElapsed(k) ==
    /\ workers.running[k].pc = "backoff"
    /\ Apply(k, NextAttempt(Ctx(workers.running[k])))
    /\ NoFault

\* The observer's note of the response to PATCH /api/upload/complete
Answered(c, ok, body) ==
    [c EXCEPT !.requests[c.w.index + 1].completeAnswers =
                  Append(@, [ok |-> ok, body |-> body])]

\* PATCH /api/upload/complete answered ok
CompleteOk(k) ==
    /\ workers.running[k].pc = "complete"
    /\ Apply(k, FileUploaded(Answered(Ctx(workers.running[k]), TRUE, NoBody)))
    /\ NoFault

\* DELETE /api/upload/abort {key, uploadId}
IssueAbort(c) ==
    Sent([c EXCEPT !.w.pc = "abort",
                   !.requests[c.w.index + 1].abort =
                       Append(@, [key |-> c.w.session.key,
                                  uploadId |-> c.w.session.uploadId])],
         JsonHeaders(c.authHeaders))

\* PATCH /api/upload/complete answered with a non-success status and `body`
CompleteNotOk(k, body) ==
    /\ workers.running[k].pc = "complete"
    /\ Apply(k, IssueAbort(Answered(Ctx([workers.running[k] EXCEPT !.finalizeBody = body]),
                                    FALSE, body)))
    /\ Fault(k)

\* fetch of /api/upload/complete rejected: uploadScreenshot throws at once
CompleteRejected(k) ==
    /\ workers.running[k].pc = "complete"
    /\ Apply(k, Throw(Ctx(workers.running[k]), "complete failed", ErrFetch))
    /\ Fault(k)

\* Mutant: no try/catch around the abort fetch
FinalizeErrorUncaught(body, answer) ==
    IF answer = "rejected" THEN ErrFetch ELSE ErrorFromBody(body, ErrCompleteGeneric)

\* try { await fetch(abort) } catch (abortError) { console.warn(...) }, then
\* const error = await completeResponse.json(); throw new Error(error.error ||
\* "Failed to complete upload"): the Error thrown once the abort fetch settled
\* as `answer`
FinalizeError(body, answer) == ErrorFromBody(body, ErrCompleteGeneric)

\* DELETE /api/upload/abort settled
AbortSettled(k, answer) ==
    /\ workers.running[k].pc = "abort"
    /\ LET w == workers.running[k]
           c == Ctx(w)
       IN Apply(k, Throw([c EXCEPT !.requests[w.index + 1].abortAnswers =
                                       Append(@, answer)],
                         "complete failed",
                         FinalizeError(w.finalizeBody, answer)))
    /\ NoFault

\* The abort fetch resolves (its status is never read) or rejects
AbortAnswers == {"answered", "rejected"}

\* uploadScreenshots called on its own: the background script stays as it is
Direct == UNCHANGED <<uploadVars, captureVars, otherVars>>

Next ==
    \/ Call /\ Direct
    \/ \E err \in {ErrNoSession, ErrNoToken} : AuthRejected(err) /\ Direct
    \/ \E token \in Tokens : AuthResolved(token) /\ Direct
    \/ \E k \in DOMAIN workers.running : CreateOk(k) /\ Direct
    \/ \E k \in DOMAIN workers.running, body \in ErrorBodies : CreateNotOk(k, body) /\ Direct
    \/ \E k \in DOMAIN workers.running : SignOk(k) /\ Direct
    \/ \E k \in DOMAIN workers.running : SignNotOk(k) /\ Direct
    \/ \E k \in DOMAIN workers.running, header \in EtagHeaders : PutOk(k, header) /\ Direct
    \/ \E k \in DOMAIN workers.running : PutNotOk(k) /\ Direct
    \/ \E k \in DOMAIN workers.running : BackoffElapsed(k) /\ Direct
    \/ \E k \in DOMAIN workers.running : CompleteOk(k) /\ Direct
    \/ \E k \in DOMAIN workers.running, body \in ErrorBodies : CompleteNotOk(k, body) /\ Direct
    \/ \E k \in DOMAIN workers.running : CompleteRejected(k) /\ Direct
    \/ \E k \in DOMAIN workers.running, answer \in AbortAnswers : AbortSettled(k, answer) /\ Direct

Spec == Init /\ [][Next]_allVars

\* ------------------------------------- uploadScreenshots under other plans
MaxPlanItems == 2         \* longest screenshots list under a varying plan

\* Images of 0, 1 and MaxSize bytes
PlanUrls == {PngUrl(0), PngUrl(1), PngUrl(MaxSize)}

\* The coordinator chunks into parts of 1..MaxSize bytes
PlanInit ==
    /\ screenshots \in UNION {[1..n -> PlanUrls] : n \in 0..MaxPlanItems}
    /\ concurrency = MaxConcurrency
    /\ plan \in 1..MaxSize
    /\ NotCalled
    /\ NoUpload
    /\ NoCaptures
    /\ NoOther

PlanSpec == PlanInit /\ [][Next]_allVars


\* ------------------------------------------- uploadToAPI (background script)
MaxMessageItems == 2      \* longest screenshots list of an UPLOAD_SCREENSHOTS message
DefaultConcurrency == 4   \* uploadScreenshots(..., concurrency = 4)

\* catch (error): errorMessage = error.message, and await updateUploadState
\* of the error state
Catch(pending, err) ==
    /\ handlerError' = err
    /\ writes' = UpdateUploadState(pending, ErrorState(N, err), "error")
    /\ handler' = "error"

\* The listener receives UPLOAD_SCREENSHOTS from `tab` and calls uploadToAPI,
\* which returns at the tab guard or suspends in its first updateUploadState
Receive(tab) ==
    /\ handler = "idle"
    /\ sender' = tab
    /\ IF HasTab(tab)
       THEN /\ handler' = "init"
            /\ writes' = UpdateUploadState(writes, UploadState(TRUE, 0, N, 0, NoError),
                                           "init")
       ELSE /\ handler' = "ignored"
            /\ UNCHANGED writes
    /\ UNCHANGED <<vars, handlerError, uploadState, notifications, tabMessages,
                   progressMessages, finalizeRequests, captureVars, otherVars>>

\* The oldest storage.set is applied and its caller `waiter` resumes
StorageApplied(waiter) ==
    /\ writes # <<>>
    /\ Head(writes).waiter = waiter
    /\ uploadState' = Head(writes).state
    /\ writes' = Tail(writes)

\* The initial state is stored: uploadToAPI calls uploadScreenshots
InitStored ==
    /\ StorageApplied("init")
    /\ handler' = "uploading"
    /\ Call
    /\ UNCHANGED <<sender, handlerError, notifications, tabMessages,
                   progressMessages, finalizeRequests, captureVars, otherVars>>

\* A progress state is stored: the callback sends UPLOAD_PROGRESS to the tab
ProgressStored ==
    /\ StorageApplied("progress")
    /\ progressMessages' = progressMessages + 1
    /\ UNCHANGED <<vars, sender, handler, handlerError, notifications, tabMessages,
                   finalizeRequests, captureVars, otherVars>>

\* The success state is stored: notification and UPLOAD_SUCCESS (lines 264-292)
SuccessStored ==
    /\ StorageApplied("success")
    /\ notifications' = Append(notifications, SuccessNotification)
    /\ tabMessages' = Append(tabMessages, UploadSuccess)
    /\ handler' = "done"
    /\ UNCHANGED <<vars, sender, handlerError, progressMessages, finalizeRequests,
                   captureVars, otherVars>>

\* The error state is stored: notification and UPLOAD_ERROR (lines 309-335)
ErrorStored ==
    /\ StorageApplied("error")
    /\ notifications' = Append(notifications, ErrorNotification(handlerError))
    /\ tabMessages' = Append(tabMessages, UploadError(handlerError))
    /\ handler' = "done"
    /\ UNCHANGED <<vars, sender, handlerError, progressMessages, finalizeRequests,
                   captureVars, otherVars>>

\* What a turn of uploadScreenshots does to its caller uploadToAPI: an
\* onProgress call of the turn runs the callback up to its updateUploadState,
\* and a turn that settles the promise resumes uploadToAPI, in its try block
\* (getAuthHeaders, line 233) or in its catch block.
Caller ==
    LET pending == IF progress' # progress
                   THEN UpdateUploadState(writes, ProgressState(progress'), "progress")
                   ELSE writes
        settles == handler = "uploading" /\ phase \in {"auth", "running"}
    IN /\ IF settles /\ phase' = "resolved"
          THEN /\ handler' = "auth"
               /\ writes' = pending
               /\ UNCHANGED handlerError
          ELSE IF settles /\ phase' = "rejected"
          THEN Catch(pending, error')
          ELSE /\ writes' = pending
               /\ UNCHANGED <<handler, handlerError>>
       /\ UNCHANGED <<sender, uploadState, notifications, tabMessages,
                      progressMessages, finalizeRequests, captureVars, otherVars>>

\* The observer's note of how the finalize request ended
FinalizeAnswered(answer) ==
    finalizeRequests' = [finalizeRequests EXCEPT ![Len(finalizeRequests)].answer = answer]

\* getAuthHeaders (line 233) returns: POST finalize-docsend-capture
HandlerAuthResolved(token) ==
    /\ handler = "auth"
    /\ handler' = "finalize"
    /\ finalizeRequests' =
           Append(finalizeRequests,
                  [imageKeys |-> [i \in 1..Len(results) |-> results[i].key],
                   originalFileNames |-> [i \in 1..Len(results) |-> results[i].filename],
                   headers |-> JsonHeaders(Bearer(token)),
                   answer |-> ""])
    /\ UNCHANGED <<vars, sender, handlerError, uploadState, writes, notifications,
                   tabMessages, progressMessages, captureVars, otherVars>>

\* getAuthHeaders (line 233) throws
HandlerAuthRejected(err) ==
    /\ handler = "auth"
    /\ Catch(writes, err)
    /\ UNCHANGED <<vars, sender, uploadState, notifications, tabMessages,
                   progressMessages, finalizeRequests, captureVars, otherVars>>

\* The finalize request is answered ok with `body`: result = await json()
FinalizeOk(body) ==
    /\ handler = "finalize"
    /\ FinalizeAnswered("ok")
    /\ IF body.json
       THEN /\ handler' = "success"
            /\ writes' = UpdateUploadState(writes, SuccessState(N), "success")
            /\ UNCHANGED handlerError
       ELSE Catch(writes, ErrJson)
    /\ UNCHANGED <<vars, sender, uploadState, notifications, tabMessages,
                   progressMessages, captureVars, otherVars>>

\* Mutant: finalizeResponse.ok is not tested
FinalizeNotOkIgnored(body) ==
    /\ handler = "finalize"
    /\ FinalizeAnswered("not ok")
    /\ handler' = "success"
    /\ writes' = UpdateUploadState(writes, SuccessState(N), "success")
    /\ UNCHANGED <<vars, sender, handlerError, uploadState, notifications,
                   tabMessages, progressMessages, captureVars, otherVars>>

\* The finalize request is answered with a non-success status and `body`
FinalizeNotOk(body) ==
    /\ handler = "finalize"
    /\ FinalizeAnswered("not ok")
    /\ Catch(writes, ErrorFromBody(body, ErrFinalizeGeneric))
    /\ UNCHANGED <<vars, sender, uploadState, notifications, tabMessages,
                   progressMessages, captureVars, otherVars>>

\* The fetch of the finalize request rejects
FinalizeRejected ==
    /\ handler = "finalize"
    /\ FinalizeAnswered("rejected")
    /\ Catch(writes, ErrFetch)
    /\ UNCHANGED <<vars, sender, uploadState, notifications, tabMessages,
                   progressMessages, captureVars, otherVars>>

UploadInit ==
    /\ screenshots \in UNION {[1..n -> DataUrls] : n \in 0..MaxMessageItems}
    /\ concurrency = DefaultConcurrency
    /\ plan = PartSize
    /\ NotCalled
    /\ NoUpload
    /\ NoCaptures
    /\ NoOther

UploadNext ==
    \/ \E tab \in Senders : Receive(tab)
    \/ InitStored
    \/ ProgressStored
    \/ SuccessStored
    \/ ErrorStored
    \/ \E token \in Tokens : HandlerAuthResolved(token)
    \/ \E err \in {ErrNoSession, ErrNoToken} : HandlerAuthRejected(err)
    \/ \E body \in ErrorBodies : FinalizeOk(body)
    \/ \E body \in ErrorBodies : FinalizeNotOk(body)
    \/ FinalizeRejected
    \/ \E err \in {ErrNoSession, ErrNoToken} : AuthRejected(err) /\ Caller
    \/ \E token \in Tokens : AuthResolved(token) /\ Caller
    \/ \E k \in DOMAIN workers.running : CreateOk(k) /\ Caller
    \/ \E k \in DOMAIN workers.running, body \in ErrorBodies : CreateNotOk(k, body) /\ Caller
    \/ \E k \in DOMAIN workers.running : SignOk(k) /\ Caller
    \/ \E k \in DOMAIN workers.running : SignNotOk(k) /\ Caller
    \/ \E k \in DOMAIN workers.running, header \in EtagHeaders : PutOk(k, header) /\ Caller
    \/ \E k \in DOMAIN workers.running : PutNotOk(k) /\ Caller
    \/ \E k \in DOMAIN workers.running : BackoffElapsed(k) /\ Caller
    \/ \E k \in DOMAIN workers.running : CompleteOk(k) /\ Caller
    \/ \E k \in DOMAIN workers.running, body \in ErrorBodies : CompleteNotOk(k, body) /\ Caller
    \/ \E k \in DOMAIN workers.running : CompleteRejected(k) /\ Caller
    \/ \E k \in DOMAIN workers.running, answer \in AbortAnswers : AbortSettled(k, answer) /\ Caller

UploadSpec == UploadInit /\ [][UploadNext]_allVars


\* --------------------------------------- captureScreenshot (background script)
MaxCaptures == 2          \* CAPTURE_SCREENSHOT messages handled in one run

ErrNoTabFound == <<"No tab found">>
ErrAttach == <<"chrome.debugger.attach rejected">>
ErrCommand == <<"chrome.debugger.sendCommand rejected">>
ErrDetach == <<"chrome.debugger.detach rejected">>

\* The argument of sendResponse: { screenshot } or { error }
ScreenshotResponse(data) == [screenshot |-> <<"data:image/png;base64,", data>>,
                             error |-> NoError]
ErrorResponse(errorMessage) == [screenshot |-> <<>>, error |-> errorMessage]

\* A captureScreenshot invocation. pc names the await it is suspended in:
\* "get" (chrome.tabs.get), "attach", "command" (sendCommand), "detach" (line
\* 98), "catch.detach" (line 124), or "done" (returned).
NewCapture(tab) ==
    [tab |-> tab, pc |-> "get", tabDetails |-> FALSE, attaches |-> 0,
     commands |-> 0, detaches |-> 0, caught |-> NoError, responses |-> <<>>]

CapturePcs == {"get", "attach", "command", "detach", "catch.detach", "done"}

\* sendResponse(response), the last statement of its path
Respond(c, response) ==
    [c EXCEPT !.pc = "done", !.responses = Append(@, response)]

\* Mutant: the catch block answers without trying to detach
CatchBlockNoDetach(c, err) == Respond(c, ErrorResponse(err))

\* catch (error) { ...; try { await chrome.debugger.detach({ tabId }) } ... }
CatchBlock(c, err) ==
    [c EXCEPT !.pc = "catch.detach", !.detaches = @ + 1, !.caught = err]

\* The listener receives CAPTURE_SCREENSHOT from `tab` and calls
\* captureScreenshot, which answers at the tab guard or suspends in tabs.get
CaptureReceive(tab) ==
    /\ Len(captures) < MaxCaptures
    /\ captures' = Append(captures,
                          IF HasTab(tab)
                          THEN NewCapture(tab)
                          ELSE Respond(NewCapture(tab), ErrorResponse(ErrNoTabFound)))
    /\ UNCHANGED <<vars, uploadVars, otherVars, attached>>

\* chrome.tabs.get settles (a rejection is only logged): attach is called
TabInfo(h, ok) ==
    /\ captures[h].pc = "get"
    /\ captures' = [captures EXCEPT ![h].pc = "attach", ![h].tabDetails = ok,
                                    ![h].attaches = @ + 1]
    /\ UNCHANGED <<vars, uploadVars, otherVars, attached>>

\* chrome.debugger.attach resolves (it cannot while the debugger is attached):
\* sendCommand is called
AttachOk(h) ==
    /\ captures[h].pc = "attach"
    /\ ~attached
    /\ attached' = TRUE
    /\ captures' = [captures EXCEPT ![h].pc = "command", ![h].commands = @ + 1]
    /\ UNCHANGED <<vars, uploadVars, otherVars>>

\* chrome.debugger.attach rejects
AttachFailed(h) ==
    /\ captures[h].pc = "attach"
    /\ captures' = [captures EXCEPT ![h] = CatchBlock(@, ErrAttach)]
    /\ UNCHANGED <<vars, uploadVars, otherVars, attached>>

\* sendCommand resolves (it cannot while the debugger is not attached): detach
\* is called (line 98)
CommandOk(h) ==
    /\ captures[h].pc = "command"
    /\ attached
    /\ captures' = [captures EXCEPT ![h].pc = "detach", ![h].detaches = @ + 1]
    /\ UNCHANGED <<vars, uploadVars, otherVars, attached>>

\* sendCommand rejects
CommandFailed(h) ==
    /\ captures[h].pc = "command"
    /\ captures' = [captures EXCEPT ![h] = CatchBlock(@, ErrCommand)]
    /\ UNCHANGED <<vars, uploadVars, otherVars, attached>>

\* detach (line 98) resolves: sendResponse({ screenshot })
DetachOk(h) ==
    /\ captures[h].pc = "detach"
    /\ attached
    /\ attached' = FALSE
    /\ captures' = [captures EXCEPT ![h] = Respond(@, ScreenshotResponse("data"))]
    /\ UNCHANGED <<vars, uploadVars, otherVars>>

\* detach (line 98) rejects, as it does when the debugger is not attached
DetachFailed(h) ==
    /\ captures[h].pc = "detach"
    /\ ~attached
    /\ captures' = [captures EXCEPT ![h] = CatchBlock(@, ErrDetach)]
    /\ UNCHANGED <<vars, uploadVars, otherVars, attached>>

\* detach in the catch block (line 124) settles, its rejection is ignored:
\* sendResponse({ error })
CatchDetachSettled(h) ==
    /\ captures[h].pc = "catch.detach"
    /\ attached' = FALSE
    /\ captures' = [captures EXCEPT ![h] = Respond(@, ErrorResponse(@.caught))]
    /\ UNCHANGED <<vars, uploadVars, otherVars>>

\* The debugger is detached from outside (the user cancels it, the tab closes)
TargetDetached ==
    /\ attached
    /\ attached' = FALSE
    /\ UNCHANGED <<vars, uploadVars, otherVars, captures>>

CaptureInit ==
    /\ screenshots = <<>>
    /\ concurrency = DefaultConcurrency
    /\ plan = PartSize
    /\ NotCalled
    /\ NoUpload
    /\ NoCaptures
    /\ NoOther

CaptureNext ==
    \/ \E tab \in Senders : CaptureReceive(tab)
    \/ \E h \in DOMAIN captures, ok \in BOOLEAN : TabInfo(h, ok)
    \/ \E h \in DOMAIN captures : AttachOk(h)
    \/ \E h \in DOMAIN captures : AttachFailed(h)
    \/ \E h \in DOMAIN captures : CommandOk(h)
    \/ \E h \in DOMAIN captures : CommandFailed(h)
    \/ \E h \in DOMAIN captures : DetachOk(h)
    \/ \E h \in DOMAIN captures : DetachFailed(h)
    \/ \E h \in DOMAIN captures : CatchDetachSettled(h)
    \/ TargetDetached

CaptureSpec == CaptureInit /\ [][CaptureNext]_allVars


\* ------------------------------------------------- dataUrlToBlob on its own
MaxDecodes == 2           \* data URLs decoded in one run

\* Every data URL: a prefix with a mime type or without one, a body or none,
\* a body that atob decodes to 0..MaxSize bytes or refuses
AllDataUrls == [mime : {"image/png", "image/jpeg", ""}, comma : BOOLEAN,
                bytes : (-1)..MaxSize]

\* dataUrlToBlob is applied to the next data URL
Decode ==
    /\ Len(decoded) < Len(encoded)
    /\ decoded' = Append(decoded, dataUrlToBlob(encoded[Len(decoded) + 1]))
    /\ UNCHANGED <<vars, uploadVars, captureVars, encoded, contentVars, zoomVars,
                   popupVars>>

DecodeInit ==
    /\ screenshots = <<>>
    /\ concurrency = DefaultConcurrency
    /\ plan = PartSize
    /\ NotCalled
    /\ NoUpload
    /\ NoCaptures
    /\ encoded \in UNION {[1..n -> AllDataUrls] : n \in 1..MaxDecodes}
    /\ decoded = <<>>
    /\ NoContent
    /\ NoZoom
    /\ NoButton

DecodeNext == Decode

DecodeSpec == DecodeInit /\ [][DecodeNext]_allVars

\* ------------------------------- content script: the capture run
\* (src/src/lib/storage.ts, lines 682-1674: captureState, startCapture,
\* stopCapture, failCapture).  A run is one startCapture invocation that
\* passed the in-progress guard; it is suspended in one await at a time and
\* every action below is the turn that wakes it.  START_CAPTURE and
\* STOP_CAPTURE (or the flow:capture:start / flow:capture:stop events) arrive
\* between turns.  The DocSend viewer and the background script are the
\* environment.
MaxPages == 5             \* pages of the longest document
MaxStarts == 2            \* startCapture invocations that pass the guard
MaxStops == 1             \* stopCapture invocations
MaxShots == 2             \* images a scrollable document yields
\* The safety limit of the capture loop, 500 in the source
\* (if (captureState.screenshots.length > 500) break), scaled down with the
\* documents: MaxPages is two pages more, so that the limit ends a loop
SafetyLimit == 3

MaxPrevAttempts == 50     \* navigateToFirstPage: const maxAttempts = 50

ErrPageCount ==
    <<"Flow couldn't detect how many pages are in this DocSend. Wait for the viewer to load and try again.">>
ErrNoImages ==
    <<"Flow couldn't load the document images. Please wait for the document to fully load and try again.">>
ErrZoom ==
    <<"Flow needs Chrome zoom set to 100% before capturing. Press Ctrl+0 (Cmd+0 on Mac) to reset zoom and try again.">>
ErrFirstPage ==
    <<"Flow couldn't navigate to the first page. Please manually go to page 1 and try again.">>
ErrNotPageOne ==
    <<"Flow couldn't navigate to page 1. Please manually go to page 1 and try again.">>
ErrLostPageCount ==
    <<"Flow lost track of the total page count. Reload the DocSend and try again.">>
ErrInconsistent ==
    <<"Flow detected inconsistent page numbers. Reload the DocSend and try again.">>
ErrScrollable ==
    <<"Failed to capture scrollable document">>

\* Everything but the content script
notContent == <<vars, uploadVars, captureVars, decodeVars, zoomVars, popupVars>>

\* The awaits a run can be suspended in, "timer" for the pending setTimeout
\* reset and "done" once nothing of the run is left
LoopPcs == {"zoom", "first", "shot1", "nav", "shot", "scroll"}

\* A run: from is the currentPage navigateToNextPage read before it tried to
\* advance, upload the screenshot count of the UPLOAD_SCREENSHOTS message the
\* run sent (<<>> when none), stopped whether stopCapture was called while
\* the run was in its capture phase, vertical the document type
NewRun(pc, isVertical) ==
    [pc |-> pc, from |-> 0, upload |-> <<>>, stopped |-> FALSE,
     vertical |-> isVertical]

\* The runs in their capture phase
Capturing == {r \in DOMAIN runs : runs[r].pc \in LoopPcs}

\* document.body.classList.contains("vertical")
isScrollableDocument == doc.vertical

\* getCurrentPageNumber() on document d
getCurrentPageNumber(d) == d.page

\* detectTotalPages(): null when no page indicator is found
detectTotalPages(found) == IF found THEN <<doc.pages>> ELSE <<>>

\* failCapture(message), up to sendStatusUpdate
failCapture(cs, message) ==
    [cs EXCEPT !.isCapturing = FALSE, !.error = message, !.totalPages = <<>>,
               !.screenshots = 0, !.capturedCount = 0]

\* restoreZoomIfNeeded() not awaited: a RESTORE_CAPTURE_ZOOM whose answer is
\* pending when zoomAdjusted is set
VoidRestore(cs) == restores + (IF cs.zoomAdjusted THEN 1 ELSE 0)

\* A turn ends with this captureState, having sent this status last
Turn(r, cs, sent, restoring, run) ==
    /\ captureState' = cs
    /\ lastStatus' = sent
    /\ restores' = restoring
    /\ runs' = [runs EXCEPT ![r] = run]

\* failCapture(message) and return, outside the try block
Fail(r, message) ==
    LET cs == failCapture(captureState, message)
    IN Turn(r, cs, StatusData(cs), VoidRestore(cs),
            [runs[r] EXCEPT !.pc = "done"])

\* The finally block up to its await: restoreZoomIfNeeded sends a message
\* and waits when zoomAdjusted is set, else the reset timer is armed at once
Finally(r, cs0, restoring, upload) ==
    LET cs == [cs0 EXCEPT !.isCapturing = FALSE,
                          !.capturedCount = cs0.screenshots]
    IN Turn(r, cs, StatusData(cs), restoring,
            [runs[r] EXCEPT !.pc = IF cs.zoomAdjusted THEN "restore" ELSE "timer",
                            !.upload = upload])

\* After the loop: UPLOAD_SCREENSHOTS when screenshots are held, then finally
Upload(r, cs) ==
    Finally(r, cs, restores,
            IF cs.screenshots > 0 THEN <<cs.screenshots>> ELSE <<>>)

\* while (captureState.isCapturing): the next navigateToNextPage is called
\* (it reads the current page and tries to advance), or the loop is left
LoopGuard(r, cs, sent) ==
    IF cs.isCapturing
    THEN Turn(r, cs, sent, restores,
              [runs[r] EXCEPT !.pc = "nav", !.from = getCurrentPageNumber(doc')])
    ELSE Upload(r, cs)

\* START_CAPTURE or flow:capture:start: startCapture up to its first await
StartCapture(found) ==
    /\ Len(runs) < MaxStarts
    /\ ~captureState.isCapturing
    /\ LET r == Len(runs) + 1
           detectedTotalPages == detectTotalPages(found)
           cs0 == [captureState EXCEPT !.isCapturing = TRUE, !.error = NoError]
           cs1 == [cs0 EXCEPT !.totalPages = detectedTotalPages,
                              !.screenshots = 0, !.zoomAdjusted = FALSE]
           cs2 == [cs1 EXCEPT !.isCapturing = TRUE, !.currentPage = 1]
       IN IF detectedTotalPages = <<>>
          THEN LET cs == failCapture(cs0, ErrPageCount)
               IN /\ captureState' = cs
                  /\ lastStatus' = StatusData(cs)
                  /\ restores' = VoidRestore(cs)
                  /\ runs' = Append(runs, NewRun("done", isScrollableDocument))
          ELSE IF isScrollableDocument
          THEN /\ captureState' = cs2
               /\ lastStatus' = StatusData(cs2)
               /\ restores' = restores
               /\ runs' = Append(runs, NewRun("scroll", TRUE))
          ELSE /\ captureState' = cs1
               /\ lastStatus' = lastStatus
               /\ restores' = restores
               /\ runs' = Append(runs, NewRun("zoom", FALSE))
    /\ UNCHANGED <<notContent, doc, stops>>

\* START_CAPTURE or flow:capture:start while a capture is in progress
StartIgnored ==
    /\ Len(runs) < MaxStarts
    /\ captureState.isCapturing
    /\ UNCHANGED <<notContent, contentVars>>

\* captureState.currentPage = getCurrentPageNumber() after the navigation to
\* page 1, then the first captureScreenshot is awaited
OnFirstPage(r) ==
    LET cs == [captureState EXCEPT !.currentPage = getCurrentPageNumber(doc')]
    IN IF cs.currentPage # 1
       THEN Fail(r, ErrNotPageOne)
       ELSE Turn(r, cs, StatusData(cs), restores,
                 [runs[r] EXCEPT !.pc = "shot1"])

\* ENSURE_CAPTURE_ZOOM is answered.  On page 1 navigateToFirstPage returns
\* without waiting, else it presses "previous" and sleeps
ZoomAnswered(r, success, adjusted) ==
    /\ runs[r].pc = "zoom"
    /\ doc' = doc
    /\ IF ~success
       THEN Fail(r, ErrZoom)
       ELSE LET cs == [captureState EXCEPT !.zoomAdjusted = adjusted]
            IN IF getCurrentPageNumber(doc) = 1
               THEN LET cs1 == [cs EXCEPT !.currentPage = 1]
                    IN Turn(r, cs1, StatusData(cs1), restores,
                            [runs[r] EXCEPT !.pc = "shot1"])
               ELSE Turn(r, cs, lastStatus, restores,
                         [runs[r] EXCEPT !.pc = "first"])
    /\ UNCHANGED <<notContent, stops>>

\* navigateToFirstPage returns: every press of "previous" went one page back
\* (at most maxAttempts presses), or none did
FirstPageSettled(r, pressed) ==
    /\ runs[r].pc = "first"
    /\ doc' = [doc EXCEPT !.page = IF pressed
                                   THEN IF @ - MaxPrevAttempts > 1
                                        THEN @ - MaxPrevAttempts ELSE 1
                                   ELSE @]
    /\ IF getCurrentPageNumber(doc') # 1
       THEN Fail(r, ErrFirstPage)
       ELSE OnFirstPage(r)
    /\ UNCHANGED <<notContent, stops>>

\* The first captureScreenshot resolves, with a screenshot or with null
FirstShotSettled(r, taken) ==
    /\ runs[r].pc = "shot1"
    /\ doc' = doc
    /\ LET cs == [captureState EXCEPT
                    !.screenshots = IF taken THEN @ + 1 ELSE @]
       IN LoopGuard(r, cs, lastStatus)
    /\ UNCHANGED <<notContent, stops>>

\* navigateToNextPage returns: the click advanced the viewer or did not;
\* hasNextPage compares the page shown now with the page read before
NavSettled(r, advanced, found) ==
    /\ runs[r].pc = "nav"
    /\ doc' = [doc EXCEPT !.page = IF advanced /\ @ < doc.pages THEN @ + 1 ELSE @]
    /\ LET hasNextPage == getCurrentPageNumber(doc') > runs[r].from
           cs0 == [captureState EXCEPT !.currentPage = getCurrentPageNumber(doc')]
           verifiedTotalPages == detectTotalPages(found)
           cs1 == [cs0 EXCEPT !.totalPages = verifiedTotalPages]
       IN IF ~hasNextPage
          THEN Upload(r, captureState)
          ELSE IF verifiedTotalPages = <<>>
          THEN LET cs == failCapture(cs0, ErrLostPageCount)
               IN Finally(r, cs, VoidRestore(cs), <<>>)
          ELSE IF cs1.currentPage > verifiedTotalPages[1]
          THEN LET cs == failCapture(cs1, ErrInconsistent)
               IN Finally(r, cs, VoidRestore(cs), <<>>)
          ELSE Turn(r, cs1, StatusData(cs1), restores,
                    [runs[r] EXCEPT !.pc = "shot"])
    /\ UNCHANGED <<notContent, stops>>

\* navigateToNextPage throws: the catch block sends a CAPTURE_STATUS of its
\* own, the finally block the last one
NavThrew(r) ==
    /\ runs[r].pc = "nav"
    /\ Finally(r, captureState, restores, <<>>)
    /\ UNCHANGED <<notContent, doc, stops>>

\* captureScreenshot resolves inside the loop, then the two safety checks
\* and the loop guard
ShotSettled(r, taken) ==
    /\ runs[r].pc = "shot"
    /\ doc' = doc
    /\ LET cs == [captureState EXCEPT
                    !.screenshots = IF taken THEN @ + 1 ELSE @]
       IN IF cs.totalPages # <<>> /\ cs.currentPage >= cs.totalPages[1]
          THEN Upload(r, cs)
          ELSE IF cs.screenshots > SafetyLimit
          THEN Upload(r, cs)
          ELSE LoopGuard(r, cs, lastStatus)
    /\ UNCHANGED <<notContent, stops>>

\* captureScrollableDocument returns n screenshots, or throws
ScrollSettled(r, n, threw) ==
    /\ runs[r].pc = "scroll"
    /\ IF threw
       THEN Fail(r, ErrScrollable)
       ELSE IF n = 0
       THEN Fail(r, ErrNoImages)
       ELSE LET cs0 == [captureState EXCEPT !.currentPage = n,
                                            !.screenshots = n,
                                            !.capturedCount = n]
                cs == [cs0 EXCEPT !.isCapturing = FALSE]
            IN Turn(r, cs, StatusData(cs), restores,
                    [runs[r] EXCEPT !.pc = "timer", !.upload = <<n>>])
    /\ UNCHANGED <<notContent, doc, stops>>

\* The RESTORE_CAPTURE_ZOOM awaited in the finally block is answered, the
\* reset timer is armed
RestoreSettled(r) ==
    /\ runs[r].pc = "restore"
    /\ Turn(r, [captureState EXCEPT !.zoomAdjusted = FALSE], lastStatus,
            restores, [runs[r] EXCEPT !.pc = "timer"])
    /\ UNCHANGED <<notContent, doc, stops>>

\* A RESTORE_CAPTURE_ZOOM that was not awaited is answered
RestoreAnswered ==
    /\ restores > 0
    /\ restores' = restores - 1
    /\ captureState' = [captureState EXCEPT !.zoomAdjusted = FALSE]
    /\ UNCHANGED <<notContent, doc, runs, lastStatus, stops>>

\* setTimeout(..., 3500) fires
ResetTimer(r) ==
    /\ runs[r].pc = "timer"
    /\ Turn(r, [captureState EXCEPT
                  !.currentPage = 0, !.capturedCount = 0,
                  !.zoomAdjusted = IF runs[r].vertical THEN @ ELSE FALSE],
            lastStatus, restores, [runs[r] EXCEPT !.pc = "done"])
    /\ UNCHANGED <<notContent, doc, stops>>

\* STOP_CAPTURE or flow:capture:stop
stopCapture ==
    /\ stops < MaxStops
    /\ stops' = stops + 1
    /\ LET cs == [captureState EXCEPT
                    !.isCapturing = FALSE, !.screenshots = 0,
                    !.currentPage = 0, !.totalPages = <<>>,
                    !.capturedCount = 0, !.error = NoError]
       IN /\ lastStatus' = StatusData(cs)
          /\ captureState' = [cs EXCEPT !.zoomAdjusted = FALSE]
    /\ restores' = VoidRestore(captureState)
    /\ runs' = [r \in DOMAIN runs |->
                  IF r \in Capturing THEN [runs[r] EXCEPT !.stopped = TRUE]
                  ELSE runs[r]]
    /\ UNCHANGED <<notContent, doc>>

\* The content script is loaded into a DocSend viewer showing some page
ContentInit ==
    /\ screenshots = <<>>
    /\ concurrency = DefaultConcurrency
    /\ plan = PartSize
    /\ NotCalled
    /\ NoUpload
    /\ NoCaptures
    /\ NoDecodes
    /\ NoZoom
    /\ NoButton
    /\ \E pages \in 1..MaxPages :
         doc \in [page : 1..pages, pages : {pages}, vertical : BOOLEAN]
    /\ NoRuns

ContentNext ==
    \/ \E found \in BOOLEAN : StartCapture(found)
    \/ StartIgnored
    \/ stopCapture
    \/ \E r \in DOMAIN runs, success \in BOOLEAN, adjusted \in BOOLEAN :
         ZoomAnswered(r, success, adjusted)
    \/ \E r \in DOMAIN runs, pressed \in BOOLEAN : FirstPageSettled(r, pressed)
    \/ \E r \in DOMAIN runs, taken \in BOOLEAN : FirstShotSettled(r, taken)
    \/ \E r \in DOMAIN runs, advanced \in BOOLEAN, found \in BOOLEAN :
         NavSettled(r, advanced, found)
    \/ \E r \in DOMAIN runs : NavThrew(r)
    \/ \E r \in DOMAIN runs, taken \in BOOLEAN : ShotSettled(r, taken)
    \/ \E r \in DOMAIN runs, n \in 0..MaxShots, threw \in BOOLEAN :
         ScrollSettled(r, n, threw)
    \/ \E r \in DOMAIN runs : RestoreSettled(r)
    \/ RestoreAnswered
    \/ \E r \in DOMAIN runs : ResetTimer(r)

ContentSpec == ContentInit /\ [][ContentNext]_allVars


\* ------------------------- background script: the capture zoom handlers
\* (src/src/background/index.ts, lines 359-458).  Each handler is suspended
\* in one chrome.tabs call at a time; the browser applies a setZoom before it
\* resolves the promise, and handlers of messages that arrive meanwhile run
\* in between.
MaxZoomMessages == 4      \* ENSURE_CAPTURE_ZOOM and RESTORE_CAPTURE_ZOOM messages

\* The zoom factors a tab starts with: just inside the tolerance, 1, on the
\* edge of the tolerance, and 150 %
ZoomLevels == {DefaultZoom - ZoomTolerance + 1, DefaultZoom,
               DefaultZoom + ZoomTolerance, DefaultZoom + 500}

notZoom == <<vars, uploadVars, captureVars, decodeVars, contentVars, popupVars>>

Abs(x) == IF x < 0 THEN -x ELSE x

\* Math.abs(currentZoom - 1) <= 0.01 as JavaScript evaluates it on doubles:
\* for a factor with three decimals the difference is below 0.01 or, from
\* 0.99 and 1.01 outwards, above it (1.01 - 1 is 0.010000000000000009)
NearDefault(currentZoom) == Abs(currentZoom - DefaultZoom) < ZoomTolerance

\* What sendResponse is called with: changed is the adjusted flag of ENSURE
\* and the restored flag of RESTORE, zoom is currentZoom or zoom, previous is
\* previousZoom (0 where a field is absent)
ZoomResponse(success, changed, zoom, previous) ==
    <<[success |-> success, changed |-> changed, zoom |-> zoom,
       previous |-> previous]>>

\* A handler: before is the zoom of the tab when the message arrived, apart
\* whether every earlier handler of the other message had answered by then,
\* target the factor of its setZoom call, originalZoom the local of that name
ZoomHandler(type, tab, pc, response) ==
    [type |-> type, tab |-> tab, pc |-> pc,
     before |-> IF tab = NoTab THEN 0 ELSE tabZoom[tab],
     apart |-> \A h \in DOMAIN zoomHandlers :
                   zoomHandlers[h].pc = "done" \/ zoomHandlers[h].type = type,
     target |-> 0, originalZoom |-> 0, response |-> response]

\* sendResponse(response), the handler is over
Answer(h, response) ==
    zoomHandlers' = [zoomHandlers EXCEPT ![h].pc = "done", ![h].response = response]

\* A map whose delete removes nothing
MapKept(m, k) == m

\* Map.prototype.delete
MapDelete(m, k) == [x \in (DOMAIN m) \ {k} |-> m[x]]

\* ENSURE_CAPTURE_ZOOM arrives: chrome.tabs.getZoom is called
EnsureReceive(tab) ==
    /\ Len(zoomHandlers) < MaxZoomMessages
    /\ zoomHandlers' = Append(zoomHandlers,
           IF tab = NoTab
           THEN ZoomHandler("ENSURE_CAPTURE_ZOOM", tab, "done",
                            ZoomResponse(FALSE, FALSE, 0, 0))
           ELSE ZoomHandler("ENSURE_CAPTURE_ZOOM", tab, "getZoom", <<>>))
    /\ UNCHANGED <<notZoom, tabZoom, tabZoomState>>

\* getZoom resolves: the tolerance test, the entry of tabZoomState, setZoom
GetZoomOk(h) ==
    /\ zoomHandlers[h].pc = "getZoom"
    /\ LET tabId == zoomHandlers[h].tab
           currentZoom == tabZoom[tabId]
           originalZoom == IF tabId \in DOMAIN tabZoomState
                           THEN tabZoomState[tabId] ELSE currentZoom
       IN IF NearDefault(currentZoom)
          THEN /\ Answer(h, ZoomResponse(TRUE, FALSE, currentZoom, 0))
               /\ UNCHANGED tabZoomState
          ELSE /\ tabZoomState' = IF tabId \in DOMAIN tabZoomState
                                  THEN tabZoomState
                                  ELSE MapSet(tabZoomState, tabId, originalZoom)
               /\ zoomHandlers' = [zoomHandlers EXCEPT
                                     ![h].pc = "setZoom",
                                     ![h].target = DefaultZoom,
                                     ![h].originalZoom = originalZoom]
    /\ UNCHANGED <<notZoom, tabZoom>>

\* getZoom rejects (the tab is gone): the catch block answers
GetZoomFailed(h) ==
    /\ zoomHandlers[h].pc = "getZoom"
    /\ Answer(h, ZoomResponse(FALSE, FALSE, 0, 0))
    /\ UNCHANGED <<notZoom, tabZoom, tabZoomState>>

\* RESTORE_CAPTURE_ZOOM arrives: without an entry it answers at once, else
\* chrome.tabs.setZoom(tabId, originalZoom) is called
RestoreReceive(tab) ==
    /\ Len(zoomHandlers) < MaxZoomMessages
    /\ zoomHandlers' = Append(zoomHandlers,
           IF tab = NoTab
           THEN ZoomHandler("RESTORE_CAPTURE_ZOOM", tab, "done",
                            ZoomResponse(FALSE, FALSE, 0, 0))
           ELSE IF tab \notin DOMAIN tabZoomState
           THEN ZoomHandler("RESTORE_CAPTURE_ZOOM", tab, "done",
                            ZoomResponse(TRUE, FALSE, 0, 0))
           ELSE [ZoomHandler("RESTORE_CAPTURE_ZOOM", tab, "setZoom", <<>>)
                   EXCEPT !.target = tabZoomState[tab],
                          !.originalZoom = tabZoomState[tab]])
    /\ UNCHANGED <<notZoom, tabZoom, tabZoomState>>

\* The browser applies a setZoom
ZoomApplied(h) ==
    /\ zoomHandlers[h].pc = "setZoom"
    /\ tabZoom' = [tabZoom EXCEPT ![zoomHandlers[h].tab] = zoomHandlers[h].target]
    /\ zoomHandlers' = [zoomHandlers EXCEPT ![h].pc = "applied"]
    /\ UNCHANGED <<notZoom, tabZoomState>>

\* ENSURE: await chrome.tabs.setZoom(tabId, 1) resolves
EnsureAdjusted(h) ==
    /\ zoomHandlers[h].pc = "applied"
    /\ zoomHandlers[h].type = "ENSURE_CAPTURE_ZOOM"
    /\ Answer(h, ZoomResponse(TRUE, TRUE, DefaultZoom, zoomHandlers[h].originalZoom))
    /\ UNCHANGED <<notZoom, tabZoom, tabZoomState>>

\* RESTORE: await chrome.tabs.setZoom(tabId, originalZoom) resolves, the
\* finally block deletes the entry
RestoreDone(h) ==
    /\ zoomHandlers[h].pc = "applied"
    /\ zoomHandlers[h].type = "RESTORE_CAPTURE_ZOOM"
    /\ Answer(h, ZoomResponse(TRUE, TRUE, zoomHandlers[h].originalZoom, 0))
    /\ tabZoomState' = MapDelete(tabZoomState, zoomHandlers[h].tab)
    /\ UNCHANGED <<notZoom, tabZoom>>

\* setZoom rejects: the catch block answers; RESTORE deletes the entry all
\* the same
SetZoomFailed(h) ==
    /\ zoomHandlers[h].pc = "setZoom"
    /\ Answer(h, ZoomResponse(FALSE, FALSE, 0, 0))
    /\ tabZoomState' = IF zoomHandlers[h].type = "RESTORE_CAPTURE_ZOOM"
                       THEN MapDelete(tabZoomState, zoomHandlers[h].tab)
                       ELSE tabZoomState
    /\ UNCHANGED <<notZoom, tabZoom>>

ZoomInit ==
    /\ screenshots = <<>>
    /\ concurrency = DefaultConcurrency
    /\ plan = PartSize
    /\ NotCalled
    /\ NoUpload
    /\ NoCaptures
    /\ NoDecodes
    /\ NoContent
    /\ NoButton
    /\ tabZoom \in [TabIds -> ZoomLevels]
    /\ tabZoomState = <<>>
    /\ zoomHandlers = <<>>

ZoomNext ==
    \/ \E tab \in Senders : EnsureReceive(tab)
    \/ \E tab \in Senders : RestoreReceive(tab)
    \/ \E h \in DOMAIN zoomHandlers : GetZoomOk(h)
    \/ \E h \in DOMAIN zoomHandlers : GetZoomFailed(h)
    \/ \E h \in DOMAIN zoomHandlers : ZoomApplied(h)
    \/ \E h \in DOMAIN zoomHandlers : EnsureAdjusted(h)
    \/ \E h \in DOMAIN zoomHandlers : RestoreDone(h)
    \/ \E h \in DOMAIN zoomHandlers : SetZoomFailed(h)

ZoomSpec == ZoomInit /\ [][ZoomNext]_allVars


\* --------------------------------- inline capture button (CaptureButton)
\* (src/src/popup.tsx, lines 122-239).  React renders between two events, so
\* every listener and handleClick see the state the previous event left.
\* Time is counted in milliseconds and advances by whole seconds; a timer
\* fires when the clock reaches the time it is due.
MaxUploadMessages == 2    \* UPLOAD_SUCCESS and UPLOAD_ERROR messages
MaxClicks == 2            \* clicks that dispatch an event
MaxClock == 9000          \* the clock stops here

SuccessDelay == 3000      \* setTimeout(() => setUploadState("idle"), 3000)
ErrorDelay == 5000        \* setTimeout(..., 5000)

notPopup == <<vars, uploadVars, captureVars, decodeVars, contentVars, zoomVars>>

\* The detail of a flow:capture:status event, as far as the button reads it
ButtonStatuses ==
    [isCapturing : BOOLEAN, currentPage : {0}, totalPages : {<<>>},
     capturedCount : 0..1, error : {NoError, ErrZoom}]

\* What is rendered for uploadState "success" and "uploading" is a div: it
\* has no onClick
RendersButton == button.uploadState \notin {"success", "uploading"}

\* handleClick: the event it dispatches, <<>> when it returns early
handleClick ==
    IF button.uploadState = "uploading" THEN <<>>
    ELSE IF button.status.isCapturing THEN <<"flow:capture:stop">>
    ELSE <<"flow:capture:start">>

\* flow:capture:status listener
StatusEvent(newStatus) ==
    /\ newStatus # button.status
    /\ button' = [button EXCEPT
                    !.uploadState =
                        IF /\ button.status.isCapturing
                           /\ ~newStatus.isCapturing
                           /\ newStatus.error = NoError
                           /\ newStatus.capturedCount > 0
                        THEN "uploading" ELSE @,
                    !.status = newStatus]
    /\ UNCHANGED <<notPopup, timers, clock, dispatched, received>>

\* chrome.runtime.onMessage listener: UPLOAD_SUCCESS
UploadSucceeded ==
    /\ received < MaxUploadMessages
    /\ received' = received + 1
    /\ button' = [button EXCEPT !.uploadState = "success"]
    /\ timers' = Append(timers, [type |-> "success", due |-> clock + SuccessDelay])
    /\ UNCHANGED <<notPopup, clock, dispatched>>

\* chrome.runtime.onMessage listener: UPLOAD_ERROR
UploadFailed ==
    /\ received < MaxUploadMessages
    /\ received' = received + 1
    /\ button' = [button EXCEPT !.uploadState = "error",
                                !.uploadError = "Upload failed"]
    /\ timers' = Append(timers, [type |-> "error", due |-> clock + ErrorDelay])
    /\ UNCHANGED <<notPopup, clock, dispatched>>

\* timers without the one at position t
Without(t) == [i \in 1..(Len(timers) - 1) |->
                 IF i < t THEN timers[i] ELSE timers[i + 1]]

\* A setTimeout callback runs
TimerFires(t) ==
    /\ timers[t].due = clock
    /\ button' = [button EXCEPT
                    !.uploadState = "idle",
                    !.uploadError = IF timers[t].type = "error" THEN "" ELSE @]
    /\ timers' = Without(t)
    /\ UNCHANGED <<notPopup, clock, dispatched, received>>

\* A second passes; the timers that were due have fired
Tick ==
    /\ clock < MaxClock
    /\ \A t \in DOMAIN timers : timers[t].due > clock
    /\ clock' = clock + 1000
    /\ UNCHANGED <<notPopup, button, timers, dispatched, received>>

\* The user clicks what is rendered
Click ==
    /\ Len(dispatched) < MaxClicks
    /\ dispatched' = IF RendersButton THEN dispatched \o handleClick
                     ELSE dispatched
    /\ UNCHANGED <<notPopup, button, timers, clock, received>>

PopupInit ==
    /\ screenshots = <<>>
    /\ concurrency = DefaultConcurrency
    /\ plan = PartSize
    /\ NotCalled
    /\ NoUpload
    /\ NoCaptures
    /\ NoDecodes
    /\ NoContent
    /\ NoZoom
    /\ NoButton

PopupNext ==
    \/ \E newStatus \in ButtonStatuses : StatusEvent(newStatus)
    \/ UploadSucceeded
    \/ UploadFailed
    \/ \E t \in DOMAIN timers : TimerFires(t)
    \/ Tick
    \/ Click

PopupSpec == PopupInit /\ [][PopupNext]_allVars


\* =================================================================== claims
Items == 1..N
Decodable == \A i \in Items : dataUrlToBlob(screenshots[i]).ok
\* getAuthHeaders returned and every screenshot decoded: the workers were spawned
Started == authHeaders # <<>> /\ Decodable
Settled == phase \in {"resolved", "rejected"}
Failed(i) == requests[i].fate \notin {"", "uploaded"}
\* uploadScreenshot is in progress for item i
InFlight(i) == requests[i].create > 0 /\ requests[i].fate = ""
InFlightItems == {i \in Items : InFlight(i)}
PartErrors == {ErrSign, ErrMissingETag} \cup {ErrPut(p) : p \in 1..MaxSize}

\* C1: when uploadScreenshots resolves it returns exactly N results, and
\* results[i] has the filename page_{i+1}.png and the key the create response
\* for item i carried; with N >= 1, concurrency >= 1 and no failing answer the
\* call never rejects, and it has resolved once no worker is left running.
C1_OrderPreserved ==
    /\ phase = "resolved" =>
        /\ Len(results) = N
        /\ \A i \in Items :
            /\ results[i].filename = <<"page_", i, ".png">>
            /\ results[i].key = requests[i].key
            /\ requests[i].key # <<>>
    /\ (N >= 1 /\ concurrency >= 1 /\ Started /\ faulty = {}) =>
        /\ phase # "rejected"
        /\ (workers.running = <<>> => phase = "resolved")

C1_Witness ==
    /\ phase = "resolved" /\ N = MaxItems /\ concurrency = MaxConcurrency
    /\ faulty = {}
    /\ \E i, j \in Items : sizePerScreenshot[i] # sizePerScreenshot[j]

\* C2: at any time at most min(concurrency, N) file uploads are in progress
\* (so at most that many create requests are outstanding), exactly
\* min(concurrency, N) workers were spawned, and every running worker has
\* exactly one upload in progress.
C2_ConcurrencyLimit ==
    /\ Cardinality(InFlightItems) <= Min(concurrency, N)
    /\ Cardinality({i \in Items : i - 1 \in DOMAIN workers.running
                                   /\ workers.running[i - 1].pc = "create"})
           <= Min(concurrency, N)
    /\ Started => NumSpawned(workers) = Min(concurrency, N)
    /\ ~Started => NumSpawned(workers) = 0
    /\ DOMAIN workers.running = {i - 1 : i \in InFlightItems}
    /\ \A k \in DOMAIN workers.running : workers.running[k].index = k

C2_Witness ==
    /\ N = MaxItems /\ concurrency = MaxConcurrency /\ concurrency < N
    /\ Cardinality(InFlightItems) = concurrency
    /\ queue # <<>>
    /\ \A k \in DOMAIN workers.running : workers.running[k].pc = "create"

\* C3: once the upload of an item has failed (decode, create, a part after its
\* retries, finalize) the call is rejected; a resolved call has every item
\* uploaded and every result filled.
C3_AnyFailureRejects ==
    /\ (\E i \in Items : Failed(i)) => phase = "rejected"
    /\ (authHeaders # <<>> /\ ~Decodable) => phase = "rejected"
    /\ phase = "resolved" =>
           \A i \in Items : requests[i].fate = "uploaded" /\ results[i] # Null

C3_Witness ==
    /\ phase = "rejected"
    /\ \E i, j \in Items : requests[i].fate = "part failed"
                           /\ requests[j].fate = "uploaded"

\* C4: from one onProgress call to the next neither percent nor uploadedBytes
\* decreases.
C4_ProgressMonotonic ==
    [][progress # NoProgress =>
          /\ progress'.percent >= progress.percent
          /\ progress'.uploadedBytes >= progress.uploadedBytes]_vars

C4_Witness ==
    /\ progress # NoProgress /\ progress.percent > 0 /\ progress.percent < 100
    /\ Cardinality(DOMAIN workers.running) = 2
    /\ \E i \in Items : requests[i].failedAttempts > 0 /\ requests[i].fate = ""
    /\ \E i \in Items : requests[i].fate = "uploaded"

C6_RetryThenSucceed ==
    /\ \A k \in DOMAIN workers.running :
        LET w == workers.running[k] IN
        /\ w.pc \in {"sign", "put"} =>
               /\ w.signs = w.failed + 1
               /\ w.failed < MaxRetries
               /\ w.puts <= w.signs
               /\ (w.pc = "put" => w.puts >= 1)
        /\ w.pc \in {"complete", "abort"} /\ w.session.totalParts > 0 =>
               /\ w.signs = w.failed + 1
               /\ w.failed < MaxRetries
               /\ w.puts >= 1 /\ w.puts <= w.signs
               /\ Len(w.completedParts) = w.session.totalParts
    /\ \A i \in Items :
        /\ requests[i].fate = "part failed" => requests[i].failedAttempts >= MaxRetries
        /\ requests[i].thrown \in PartErrors => requests[i].failedAttempts >= MaxRetries

\* A single one-part image whose PUT failed twice before the third PUT
\* succeeded, and the batch resolved.
C6_Witness ==
    /\ phase = "resolved" /\ N = 1
    /\ sizePerScreenshot[1] = 1
    /\ requests[1].failedAttempts = MaxRetries - 1
    /\ requests[1].fate = "uploaded"

\* C7: a file that fails on a part has made exactly maxRetries attempts for
\* that part and threw the error of an attempt; the batch is rejected and no
\* complete and no abort request is ever sent for that file's session.
C7_ExhaustedRetries ==
    \A i \in Items :
        requests[i].fate = "part failed" =>
            /\ requests[i].attempts = MaxRetries
            /\ requests[i].thrown \in PartErrors
            /\ phase = "rejected"
            /\ (faulty = {i - 1} => error = requests[i].thrown)
            /\ requests[i].complete = <<>>
            /\ requests[i].completeAnswers = <<>>
            /\ requests[i].abort = <<>>

C7_Witness ==
    /\ N = 1 /\ phase = "rejected"
    /\ requests[1].fate = "part failed"
    /\ error = ErrPut(1)

\* C8: a non-success answer to a session's complete request is followed by
\* exactly one abort request, with the key and uploadId of that session; once
\* the abort has settled, however it did, the file has failed with the Error
\* made from the complete response, and no abort is sent otherwise.
C8_FinalizeFailureAborts ==
    \A i \in Items :
        LET r == requests[i] IN
        /\ Len(r.complete) <= 1 /\ Len(r.completeAnswers) <= Len(r.complete)
        /\ (r.completeAnswers # <<>> /\ ~r.completeAnswers[1].ok) =>
               /\ Len(r.abort) = 1
               /\ r.abort[1].key = r.key
               /\ r.abort[1] = [key |-> r.complete[1].key,
                                uploadId |-> r.complete[1].uploadId]
               /\ r.abort[1].uploadId # <<>>
        /\ r.abortAnswers # <<>> =>
               /\ Len(r.abortAnswers) = 1
               /\ r.fate = "complete failed"
               /\ r.thrown = ErrorFromBody(r.completeAnswers[1].body, ErrCompleteGeneric)
               /\ r.thrown # ErrFetch
               /\ phase = "rejected"
               /\ (faulty = {i - 1} => error = r.thrown)

C8_Witness ==
    \E i \in Items :
        /\ requests[i].abortAnswers = <<"rejected">>
        /\ requests[i].thrown = ErrCompleteGeneric
        /\ phase = "rejected"

\* C9 as stated: for the empty list the call, once past getAuthHeaders, has
\* resolved to the empty list, with no network call and no progress callback.
C9_Original ==
    (N = 0 /\ phase \notin {"idle", "auth"}) =>
        /\ phase = "resolved" /\ results = <<>>
        /\ ~networkUsed /\ progress = NoProgress

\* C9 amended: for the empty list and any concurrency, the call resolves to
\* the empty list once getAuthHeaders has returned headers and rejects with
\* the credential error when getAuthHeaders throws; in both cases no
\* coordinator or storage request is made and onProgress is never called.
C9_EmptyInput ==
    N = 0 =>
        /\ ~networkUsed /\ progress = NoProgress
        /\ phase \notin {"idle", "auth"} =>
               IF authHeaders # <<>>
               THEN phase = "resolved" /\ results = <<>>
               ELSE phase = "rejected" /\ error \in {ErrNoSession, ErrNoToken}

C9_Witness == N = 0 /\ phase = "resolved" /\ concurrency = MaxConcurrency

\* C10: the call is rejected in the very turn in which a worker first fails,
\* whatever the other workers are doing; that turn changes nothing in the
\* other workers, which stay suspended in their requests.
C10_FailFast ==
    /\ [](workers.rejected > 0 => phase = "rejected")
    /\ [][(phase = "running" /\ phase' = "rejected") =>
             \E k \in DOMAIN workers.running :
                 /\ k \notin DOMAIN workers'.running
                 /\ \A j \in DOMAIN workers.running \ {k} :
                        /\ j \in DOMAIN workers'.running
                        /\ workers'.running[j] = workers.running[j]
                        /\ workers.running[j].pc \in InFlightPcs]_vars

C10_Witness ==
    /\ phase = "rejected" /\ workers.rejected = 1
    /\ \E k \in DOMAIN workers.running : workers.running[k].pc = "put"

\* C11 as stated: once the upload of a file has failed, no worker claims
\* another queued index and no further create request is sent.
C11_Original ==
    [][(\E i \in Items : Failed(i)) =>
          /\ claimed' = claimed
          /\ \A i \in Items : requests'[i].create = requests[i].create]_vars

\* C12: getAuthHeaders is called exactly once per run, before any coordinator
\* or storage request, and every create, sign, complete and abort request of
\* the batch carries the Authorization header it returned.
C12_CredentialsOnce ==
    /\ authCalls <= 1
    /\ phase # "idle" => authCalls = 1
    /\ networkUsed => authHeaders # <<>>
    /\ authHeaders # <<>> => authHeaders \in {Bearer(t) : t \in Tokens}
    /\ \A i \in Items :
        IF requests[i].create > 0
        THEN requests[i].auth = {authHeaders.Authorization}
        ELSE requests[i].auth = {}

C12_Witness ==
    /\ authHeaders = Bearer("token-b") /\ N = MaxItems
    /\ \E i, j \in Items :
        /\ requests[i].abort # <<>> /\ requests[i].failedAttempts > 0
        /\ i # j /\ requests[j].fate = "uploaded"

\* C13: when getAuthHeaders throws, the call is rejected with that error and
\* nothing was started: no request of any kind, no worker, no claimed index, no
\* onProgress call.
C13_AuthFailureBeforeWork ==
    (phase \notin {"idle", "auth"} /\ authHeaders = <<>>) =>
        /\ phase = "rejected"
        /\ error \in {ErrNoSession, ErrNoToken}
        /\ ~networkUsed
        /\ progress = NoProgress
        /\ \A i \in Items : requests[i] = NoRequests
        /\ workers = NoWorkers /\ claimed = <<>> /\ queue = <<>>

C13_Witness ==
    /\ phase = "rejected" /\ error = ErrNoToken /\ authHeaders = <<>>
    /\ N = MaxItems /\ concurrency = MaxConcurrency /\ Decodable

\* C19: the indexes are claimed in ascending order from 0, each at most once
\* (one create request per claimed index, none for an unclaimed one); what is
\* claimed and what is queued make up 0..N-1, and a resolved run has claimed
\* every index.
C19_ClaimOnce ==
    /\ \A a \in 1..Len(claimed) : claimed[a] = a - 1
    /\ \A a, b \in 1..Len(claimed) : a < b => claimed[a] < claimed[b]
    /\ Started => claimed \o queue = [i \in 1..N |-> i - 1]
    /\ \A i \in Items :
        requests[i].create = Cardinality({a \in 1..Len(claimed) : claimed[a] = i - 1})
    /\ phase = "resolved" => Len(claimed) = N

C19_Witness ==
    /\ phase = "resolved" /\ N = MaxItems /\ concurrency = MaxConcurrency
    /\ claimed = [i \in 1..N |-> i - 1]
    /\ \E i \in Items : requests[i].failedAttempts > 0

\* C20: every complete request carries exactly totalParts parts, numbered
\* 1..totalParts in ascending order, each with the ETag of a successful PUT;
\* a worker awaiting the complete response has uploaded every part.
C20_CompleteAfterAllParts ==
    /\ \A i \in Items : \A n \in 1..Len(requests[i].complete) :
        LET parts == requests[i].complete[n].parts
            totalParts == NewSession(Filename(i - 1), sizePerScreenshot[i]).totalParts
        IN /\ Len(parts) = totalParts
           /\ \A p \in 1..Len(parts) : parts[p].PartNumber = p /\ parts[p].ETag # <<>>
    /\ \A k \in DOMAIN workers.running :
        LET w == workers.running[k] IN
        w.pc = "complete" =>
            /\ requests[k + 1].complete # <<>>
            /\ requests[k + 1].complete[1].parts = w.completedParts
            /\ Len(w.completedParts) = w.session.totalParts
        
C20_Witness ==
    \E i \in Items :
        /\ requests[i].complete # <<>>
        /\ Len(requests[i].complete[1].parts) = 2
        /\ requests[i].failedAttempts > 0
        /\ requests[i].fate = "uploaded"

\* C14 as stated: once uploadToAPI has handled the rejection of
\* uploadScreenshots, the stored uploadState is the error state
\* {isUploading: false, error: message} and no later write replaces it.
C14_Original ==
    (handler = "done" /\ phase = "rejected") =>
        /\ uploadState.isUploading = FALSE
        /\ uploadState.error = handlerError

\* C15: once uploadToAPI has finished without an error, the stored uploadState
\* is {isUploading: false, percent: 100, currentFile = totalFiles = N}, no
\* storage write is pending and no worker is left to report progress, so
\* nothing replaces it.
C15_SuccessStateLast ==
    (handler = "done" /\ handlerError = NoError) =>
        /\ uploadState.stored
        /\ uploadState.isUploading = FALSE
        /\ uploadState.percent = 100
        /\ uploadState.currentFile = N /\ uploadState.totalFiles = N
        /\ uploadState.error = NoError
        /\ writes = <<>>
        /\ workers.running = <<>> /\ phase = "resolved"

C15_Witness ==
    /\ handler = "done" /\ handlerError = NoError
    /\ N = MaxMessageItems /\ progressMessages >= 3
    /\ \E i \in Items : requests[i].failedAttempts > 0

\* Nothing is outstanding: no message to receive, no storage write to apply,
\* no answer of the credential provider or of the finalize request awaited, no
\* worker suspended in a request or a timer. No turn can follow.
Quiescent ==
    /\ handler \notin {"idle", "auth", "finalize"}
    /\ writes = <<>>
    /\ phase # "auth"
    /\ workers.running = <<>>

C16_Outcome ==
    /\ Len(tabMessages) <= 1
    /\ Len(notifications) = Len(tabMessages)
    /\ (handler = "done") <=> (Len(tabMessages) = 1)
    /\ tabMessages # <<>> =>
        IF tabMessages[1].type = "UPLOAD_SUCCESS"
        THEN /\ phase = "resolved"
             /\ Len(finalizeRequests) = 1 /\ finalizeRequests[1].answer = "ok"
             /\ handlerError = NoError
             /\ notifications[1] = SuccessNotification
        ELSE /\ tabMessages[1] = UploadError(handlerError)
             /\ notifications[1] = ErrorNotification(handlerError)
             /\ handlerError # NoError
             /\ phase = "rejected" => handlerError = error
             /\ phase = "resolved" =>
                    \/ finalizeRequests = <<>>
                    \/ finalizeRequests[1].answer \in {"not ok", "rejected"}
                    \/ handlerError = ErrJson

C17_NoTabNoUpload ==
    /\ handler = "ignored" =>
        /\ phase = "idle" /\ authCalls = 0 /\ ~networkUsed
        /\ uploadState = NoState /\ writes = <<>>
        /\ notifications = <<>> /\ tabMessages = <<>> /\ progressMessages = 0
        /\ finalizeRequests = <<>>
    /\ (sender = NoTab /\ handler # "idle") => handler = "ignored"
    /\ handler = "ignored" => sender = NoTab

C17_Witness ==
    /\ handler = "ignored" /\ sender = NoTab
    /\ N = MaxMessageItems /\ Decodable

\* C18: every captureScreenshot invocation calls sendResponse at most once,
\* exactly once when it has returned, with a screenshot or else an error; with
\* a tab id it has tried to attach once and has tried to detach after that; and
\* the debugger is attached only while some invocation still has a detach
\* ahead of it or under way, so none leaves it attached when it returns.
C18_CaptureAlwaysDetaches ==
    /\ \A h \in DOMAIN captures :
        LET c == captures[h] IN
        /\ c.pc \in CapturePcs
        /\ Len(c.responses) <= 1
        /\ (c.pc = "done") <=> (Len(c.responses) = 1)
        /\ c.responses # <<>> =>
               (c.responses[1].screenshot = <<>>) <=> (c.responses[1].error # NoError)
        /\ c.detaches > 0 => c.attaches = 1
        /\ (c.pc = "done" /\ HasTab(c.tab)) =>
               /\ c.attaches = 1
               /\ c.detaches >= 1
               /\ c.responses[1].error = c.caught
        /\ (c.pc = "done" /\ ~HasTab(c.tab)) =>
               /\ c.attaches = 0 /\ c.detaches = 0
               /\ c.responses[1] = ErrorResponse(ErrNoTabFound)
    /\ attached =>
           \E h \in DOMAIN captures : captures[h].pc \in {"command", "detach", "catch.detach"}
    /\ (\A h \in DOMAIN captures : captures[h].pc = "done") => ~attached

C18_Witness ==
    /\ Len(captures) = MaxCaptures
    /\ \A h \in DOMAIN captures : captures[h].pc = "done"
    /\ \E h \in DOMAIN captures : captures[h].responses[1].error = ErrCommand
    /\ \E h \in DOMAIN captures : captures[h].responses[1].screenshot # <<>>

\* C21: while the worker of a file waits for a sign response, a PUT response
\* or a backoff timer, the part concerned is the one after the parts already
\* uploaded, which are parts 1, 2, ... in this order; from one turn to the
\* next the part number of a file stays or grows by one, and it grows only in
\* the turn in which the PUT of the part before it has succeeded (or the
\* session was created, for part 1). So one request of a file is in flight at
\* a time.
C21_PartsInOrder ==
    /\ [](\A k \in DOMAIN workers.running :
            LET w == workers.running[k] IN
            /\ \A q \in 1..Len(w.completedParts) : w.completedParts[q].PartNumber = q
            /\ w.pc \in {"sign", "put", "backoff"} =>
                   /\ w.partNumber = Len(w.completedParts) + 1
                   /\ w.partNumber <= w.session.totalParts
            /\ w.pc = "create" => w.partNumber = 0 /\ w.completedParts = <<>>)
    /\ [][\A k \in (DOMAIN workers.running) \cap (DOMAIN workers'.running) :
            LET w == workers.running[k]
                v == workers'.running[k]
            IN \/ v.partNumber = w.partNumber /\ v.completedParts = w.completedParts
               \/ /\ v.partNumber = w.partNumber
                  /\ w.pc = "put" /\ v.pc = "complete"
                  /\ Len(v.completedParts) = w.partNumber
               \/ /\ v.partNumber = w.partNumber + 1
                  /\ v.pc = "sign"
                  /\ w.pc = IF w.partNumber = 0 THEN "create" ELSE "put"
                  /\ Len(v.completedParts) = w.partNumber
                  /\ Len(w.completedParts) = w.partNumber - (IF w.partNumber = 0 THEN 0 ELSE 1)]_vars

C21_Witness ==
    \E k \in DOMAIN workers.running :
        LET w == workers.running[k] IN
        /\ w.pc = "put" /\ w.partNumber = 2 /\ w.failed > 0
        /\ requests[k + 1].failedAttempts > w.failed
        /\ Cardinality(DOMAIN workers.running) = 2

\* C22 as stated: create is requested at most once per item; a file whose
\* create was answered with a non-success status has failed with the
\* coordinator's error message, or with the generic message when none is
\* given, and no sign, PUT, complete or abort request was made for it.
C22_Original ==
    \A i \in Items :
        /\ requests[i].create <= 1
        /\ requests[i].fate = "create failed" =>
               /\ requests[i].thrown \in
                      {b.error : b \in {x \in ErrorBodies : x.error # <<>>}}
                          \cup {ErrCreateGeneric}
               /\ requests[i].signs = 0 /\ requests[i].puts = 0
               /\ requests[i].complete = <<>> /\ requests[i].abort = <<>>

\* C23: the attempt under way for a part is attempt number `failed` (0-based)
\* and has sent its own sign request, so the part has had failed + 1 sign
\* requests, at most maxRetries, and no more PUT requests than sign requests;
\* the PUT in flight goes to the URL signed in this very attempt for this
\* part; over a file, every sign request belongs to one failed attempt, one
\* uploaded part or the attempt under way.
C23_SignPerAttempt ==
    /\ \A k \in DOMAIN workers.running :
        LET w == workers.running[k]
            r == requests[k + 1]
        IN /\ w.pc \in {"sign", "put"} =>
                  /\ w.failed = w.attempt
                  /\ w.signs = w.attempt + 1
                  /\ r.signs = r.failedAttempts + Len(r.reported) + 1
           /\ w.pc = "backoff" =>
                  /\ w.failed = w.attempt + 1
                  /\ w.signs = w.attempt + 1
           /\ w.pc \in {"sign", "put", "backoff"} =>
                  /\ w.signs <= MaxRetries
                  /\ w.puts <= w.signs
           /\ w.pc = "put" =>
                  /\ w.url = SignedUrl(w.partNumber, w.attempt)
                  /\ w.puts >= 1
           /\ w.pc \in {"complete", "abort"} =>
                  r.signs = r.failedAttempts + Len(r.reported)
    /\ \A i \in Items :
        LET r == requests[i] IN
        /\ r.puts <= r.signs
        /\ r.signs <= MaxRetries * Ceil(dataUrlToBlob(screenshots[i]).size, PartSize)
        /\ r.fate # "" => r.signs = r.failedAttempts + Len(r.reported)
        /\ r.fate = "part failed" => r.attempts = MaxRetries

C23_Witness ==
    \E k \in DOMAIN workers.running :
        LET w == workers.running[k] IN
        /\ w.pc = "put" /\ w.attempt = MaxRetries - 1
        /\ w.signs = MaxRetries /\ w.puts = MaxRetries - 1
        /\ w.partNumber = 2

\* C24: a worker waiting for its backoff timer has just failed attempt a
\* (0-based), which is not the last allowed one, and waits 1000 * 2^a ms
\* capped at 10000 ms (1000, then 2000); a part whose last allowed attempt
\* failed has thrown without a further delay, after maxRetries - 1 delays;
\* the delay formula gives 1000, 2000, 4000, 8000 and then 10000 for ever.
C24_BackoffDelays ==
    /\ [](\A k \in DOMAIN workers.running :
            LET w == workers.running[k] IN
            /\ w.pc = "backoff" =>
                   /\ w.attempt < MaxRetries - 1
                   /\ w.failed = w.attempt + 1
                   /\ w.delay = <<1000, 2000, 4000, 8000, 10000>>[Min(w.attempt, 4) + 1]
                   /\ w.delay <= 10000
            /\ w.pc \in {"sign", "put"} /\ w.attempt > 0 =>
                   w.delay = <<1000, 2000, 4000, 8000, 10000>>[Min(w.attempt - 1, 4) + 1])
    /\ [](\A a \in 0..MaxAttempt :
            /\ BackoffDelay(a) <= 10000
            /\ BackoffDelay(a) = <<1000, 2000, 4000, 8000, 10000>>[Min(a, 4) + 1])
    /\ [][\A k \in DOMAIN workers.running :
            LET w == workers.running[k] IN
            \* the turn in which an attempt fails
            (w.pc \in {"sign", "put"} /\
             requests'[k + 1].failedAttempts = requests[k + 1].failedAttempts + 1) =>
                IF w.attempt < MaxRetries - 1
                THEN /\ k \in DOMAIN workers'.running
                     /\ workers'.running[k].pc = "backoff"
                     /\ workers'.running[k].attempt = w.attempt
                ELSE /\ k \notin DOMAIN workers'.running
                     /\ requests'[k + 1].fate = "part failed"]_vars

C24_Witness ==
    \E k \in DOMAIN workers.running :
        LET w == workers.running[k] IN
        /\ w.pc = "backoff" /\ w.attempt = MaxRetries - 2 /\ w.delay = 2000
        /\ w.partNumber = 2 /\ w.lastError = ErrMissingETag

\* C25: every part a worker has recorded, and every part of a complete
\* request, has an ETag that is not empty and holds no quote; the turn in which
\* an ok PUT response has no usable ETag records no part and no progress and
\* counts as a failed attempt of the same part: the worker backs off for the
\* next attempt, or the file fails when it was the last allowed attempt.
C25_ETagNeverEmpty ==
    /\ [](/\ \A k \in DOMAIN workers.running :
              \A q \in 1..Len(workers.running[k].completedParts) :
                  LET etag == workers.running[k].completedParts[q].ETag IN
                  etag # <<>> /\ \A n \in 1..Len(etag) : etag[n] # Quote
          /\ \A i \in Items : \A n \in 1..Len(requests[i].complete) :
              \A q \in 1..Len(requests[i].complete[n].parts) :
                  LET etag == requests[i].complete[n].parts[q].ETag IN
                  etag # <<>> /\ \A m \in 1..Len(etag) : etag[m] # Quote)
    /\ [][\A k \in DOMAIN workers.running :
            LET w == workers.running[k] IN
            /\ (k \in DOMAIN workers'.running /\
                workers'.running[k].lastError = ErrMissingETag /\
                workers'.running[k].failed = w.failed + 1) =>
                   /\ w.pc = "put"
                   /\ workers'.running[k].pc = "backoff"
                   /\ workers'.running[k].partNumber = w.partNumber
                   /\ workers'.running[k].attempt = w.attempt
                   /\ workers'.running[k].completedParts = w.completedParts
                   /\ requests'[k + 1].reported = requests[k + 1].reported
                   /\ requests'[k + 1].failedAttempts = requests[k + 1].failedAttempts + 1
            /\ (requests[k + 1].fate = "" /\ requests'[k + 1].thrown = ErrMissingETag) =>
                   /\ w.pc = "put" /\ w.attempt = MaxRetries - 1
                   /\ requests'[k + 1].fate = "part failed"
                   /\ requests'[k + 1].reported = requests[k + 1].reported
                   /\ requests'[k + 1].complete = <<>>]_vars

C25_Witness ==
    \E k \in DOMAIN workers.running :
        LET w == workers.running[k] IN
        /\ w.pc = "put" /\ w.partNumber = 2 /\ w.lastError = ErrMissingETag
        /\ w.completedParts = <<[PartNumber |-> 1, ETag |-> <<"e">>]>>

\* C26: the per-file callback of a file has been called once for each part
\* uploaded so far, the call for part p with
\* uploaded = min(p * partSize, size of the file), so the values never
\* decrease; a call is made only in the turn in which a PUT succeeded, and a
\* turn in which an attempt fails makes none.
C26_FileProgressPerPart ==
    /\ [](/\ \A i \in Items :
              LET r == requests[i]
                  size == dataUrlToBlob(screenshots[i]).size
              IN /\ \A p \in 1..Len(r.reported) :
                      /\ r.reported[p] = IF p * PartSize <= size THEN p * PartSize ELSE size
                      /\ p > 1 => r.reported[p - 1] <= r.reported[p]
                 /\ r.fate \in {"uploaded", "complete failed"} =>
                        Len(r.reported) = Ceil(size, PartSize)
                 /\ r.fate \in {"create failed", "decode failed"} => r.reported = <<>>
                 /\ r.create = 0 => r.reported = <<>>
          /\ \A k \in DOMAIN workers.running :
              Len(requests[k + 1].reported) = Len(workers.running[k].completedParts))
    /\ [][\A i \in Items :
            /\ requests'[i].reported # requests[i].reported =>
                   /\ Len(requests'[i].reported) = Len(requests[i].reported) + 1
                   /\ SubSeq(requests'[i].reported, 1, Len(requests[i].reported))
                          = requests[i].reported
                   /\ i - 1 \in DOMAIN workers.running
                   /\ workers.running[i - 1].pc = "put"
                   /\ requests'[i].failedAttempts = requests[i].failedAttempts
                   /\ bytesPerScreenshot'[i - 1]
                          = requests'[i].reported[Len(requests'[i].reported)]
            /\ requests'[i].failedAttempts # requests[i].failedAttempts =>
                   /\ requests'[i].reported = requests[i].reported
                   /\ progress' = progress]_vars

C26_Witness ==
    \E i \in Items :
        /\ requests[i].reported = <<PartSize, MaxSize>>
        /\ requests[i].failedAttempts = 2
        /\ requests[i].fate = ""
        /\ Cardinality(DOMAIN workers.running) = 2

\* The value most recently recorded for item i in the progress map: its size
\* once it is fully uploaded, else the last value its callback reported.
LastRecorded(i) ==
    IF requests[i].fate = "uploaded" THEN dataUrlToBlob(screenshots[i]).size
    ELSE requests[i].reported[Len(requests[i].reported)]

\* C27: the items present in the progress map are those that reported or were
\* fully uploaded, each with its most recently recorded byte count; every
\* onProgress call carries as uploadedBytes the sum of these counts over the
\* items present, as totalBytes the sum of the decoded sizes of all items, and
\* totalFiles = N.
C27_BatchProgressIsSum ==
    /\ [](Started =>
            /\ DOMAIN bytesPerScreenshot =
                   {i - 1 : i \in {j \in Items : requests[j].reported # <<>>
                                                 \/ requests[j].fate = "uploaded"}}
            /\ \A i \in Items :
                   i - 1 \in DOMAIN bytesPerScreenshot =>
                       bytesPerScreenshot[i - 1] = LastRecorded(i))
    /\ [][progress' # progress =>
            /\ progress'.uploadedBytes =
                   SumSeq([i \in 1..N |-> IF requests'[i].reported # <<>>
                                               \/ requests'[i].fate = "uploaded"
                                          THEN LastRecorded(i)'
                                          ELSE 0])
            /\ progress'.totalBytes = SumSeq([i \in 1..N |-> dataUrlToBlob(screenshots[i]).size])
            /\ progress'.totalFiles = N
            /\ \E i \in Items : requests'[i].reported # requests[i].reported]_vars
    /\ [][(\E i \in Items : requests'[i].reported # requests[i].reported) =>
              progress' # progress]_vars

C27_Witness ==
    /\ N = MaxItems
    /\ progress # NoProgress
    /\ progress.uploadedBytes = MaxSize + 1
    /\ \E i, j \in Items :
        /\ i # j
        /\ requests[i].fate = "uploaded" /\ sizePerScreenshot[i] = MaxSize
        /\ requests[j].fate = "" /\ requests[j].reported # <<>>
        /\ requests[j].failedAttempts > 0

C29_NoUnfilledResult ==
    /\ phase = "resolved" =>
           /\ Len(results) = N
           /\ \A i \in Items : results[i] # Null /\ results[i].key # <<>>
    /\ (Started /\ workers.running = <<>> /\ workers.rejected = 0
                /\ \E i \in Items : results[i] = Null) =>
           /\ phase = "rejected" /\ error = ErrSomeFailed
           /\ \A i \in Items :
                  results[i] = Null =>
                      /\ requests[i] = NoRequests
                      /\ i - 1 \notin DOMAIN bytesPerScreenshot
    /\ (Started /\ N > 0 /\ concurrency <= 0) =>
           /\ phase = "rejected" /\ error = ErrSomeFailed
           /\ NumSpawned(workers) = 0
           /\ ~networkUsed /\ progress = NoProgress
           /\ \A i \in Items : results[i] = Null /\ requests[i] = NoRequests

C29_Witness ==
    /\ N = MaxItems /\ concurrency = 0 /\ Started
    /\ phase = "rejected" /\ error = ErrSomeFailed
    /\ \A i \in Items : results[i] = Null

\* C30: once a request has been sent, the size of every item is known and is
\* the length of its decoded body, and sizes and total never change after
\* that; when some item, at whatever index, cannot be decoded, the call past
\* getAuthHeaders is rejected with the decode error, no worker was started, no
\* index claimed, no request sent, no progress reported, and nothing happens
\* after the rejection.
C30_SizesBeforeNetwork ==
    /\ [](networkUsed =>
            /\ Len(sizePerScreenshot) = N
            /\ \A i \in Items : /\ screenshots[i] \notin MalformedUrls
                                /\ sizePerScreenshot[i] = screenshots[i].bytes
            /\ totalBytes = SumSeq([i \in 1..N |-> screenshots[i].bytes]))
    /\ []((authHeaders # <<>> /\ \E i \in Items : screenshots[i] \in MalformedUrls) =>
            /\ phase = "rejected" /\ error = ErrDecode
            /\ ~networkUsed
            /\ workers = NoWorkers /\ claimed = <<>> /\ queue = <<>>
            /\ progress = NoProgress
            /\ \A i \in Items : requests[i] = NoRequests)
    /\ [][/\ sizePerScreenshot # <<>> =>
                 sizePerScreenshot' = sizePerScreenshot /\ totalBytes' = totalBytes
          /\ (authHeaders # <<>> /\ \E i \in Items : screenshots[i] \in MalformedUrls) =>
                 vars' = vars]_vars

C30_Witness ==
    /\ N = MaxItems /\ concurrency = MaxConcurrency
    /\ screenshots[1] \in GoodUrls /\ screenshots[N] = BadBase64Url
    /\ \A i \in 1..(N - 1) : screenshots[i] \notin MalformedUrls
    /\ phase = "rejected" /\ error = ErrDecode

\* C31 as stated: dataUrlToBlob fails when the prefix cannot be parsed and
\* when the body is not valid base64, and never succeeds on an unparsable
\* prefix.
C31_Original ==
    \A i \in 1..Len(decoded) :
        (encoded[i].mime = "" \/ ~encoded[i].comma \/ encoded[i].bytes < 0) =>
            ~decoded[i].ok

\* C31 amended: dataUrlToBlob fails exactly when the data URL has no body or
\* a body that is not valid base64; whatever the prefix, a valid body gives a
\* blob of the decoded bytes, of the type named in the prefix, or of type
\* image/png when the prefix cannot be parsed.
C31_DecodeFailsOnBodyOnly ==
    \A i \in 1..Len(decoded) :
        /\ decoded[i].ok <=> (encoded[i].comma /\ encoded[i].bytes >= 0)
        /\ decoded[i].ok =>
               /\ decoded[i].size = encoded[i].bytes
               /\ decoded[i].type = IF encoded[i].mime = "" THEN "image/png"
                                    ELSE encoded[i].mime
        /\ ~decoded[i].ok => decoded[i].error = DecodeError

C31_Witness ==
    /\ Len(decoded) = MaxDecodes
    /\ \E i \in 1..Len(decoded) :
        encoded[i].mime = "" /\ decoded[i].ok /\ decoded[i].type = "image/png"
    /\ \E i \in 1..Len(decoded) :
        encoded[i].mime = "image/jpeg" /\ encoded[i].bytes < 0 /\ ~decoded[i].ok

\* C32 as stated: an abort request is sent for a session if and only if its
\* complete request was made and did not succeed; in particular a file whose
\* finalize failed has had an abort sent.
C32_Original ==
    \A i \in Items :
        LET r == requests[i]
            completeFailed == r.fate = "complete failed"
                              \/ (r.completeAnswers # <<>> /\ ~r.completeAnswers[1].ok)
        IN /\ r.abort # <<>> => (r.complete # <<>> /\ r.fate # "uploaded")
           /\ completeFailed => r.abort # <<>>

\* C34: once uploadScreenshots has resolved, no worker is running and none
\* has failed, the queue is empty, every index was claimed, every item has
\* had exactly one complete request, answered ok, and no abort request; and no
\* step follows: no request, no progress callback, no change at all.
C34_ResolvedIsQuiet ==
    /\ [](phase = "resolved" =>
            /\ workers.running = <<>> /\ workers.rejected = 0
            /\ NumSpawned(workers) = workers.fulfilled
            /\ queue = <<>> /\ Len(claimed) = N
            /\ \A i \in Items :
                /\ Len(requests[i].complete) = 1
                /\ requests[i].completeAnswers = <<[ok |-> TRUE, body |-> NoBody]>>
                /\ requests[i].abort = <<>> /\ requests[i].abortAnswers = <<>>
                /\ requests[i].fate = "uploaded")
    /\ [][phase = "resolved" => vars' = vars]_vars

C34_Witness ==
    /\ phase = "resolved" /\ N = MaxItems /\ concurrency = MaxConcurrency
    /\ workers.fulfilled = MaxConcurrency
    /\ \E i \in Items : requests[i].failedAttempts > 0 /\ Len(requests[i].reported) = 2

\* C33: every onProgress call has 0 <= uploadedBytes <= totalBytes, a total
\* that is not zero, so that percent is a number, and 0 <= percent <= 100,
\* for parts of 1..MaxSize bytes, images of 0..MaxSize bytes and every
\* interleaving of the workers.
C33_ProgressInRange ==
    /\ [](progress # NoProgress =>
            /\ progress.totalBytes > 0
            /\ progress.totalBytes = SumSeq([i \in 1..N |-> screenshots[i].bytes])
            /\ progress.uploadedBytes >= 0
            /\ progress.uploadedBytes <= progress.totalBytes
            /\ progress.percent \in 0..100
            /\ 2 * progress.totalBytes * progress.percent
                   <= 200 * progress.uploadedBytes + progress.totalBytes
            /\ 200 * progress.uploadedBytes - progress.totalBytes
                   < 2 * progress.totalBytes * progress.percent)
    /\ []((totalBytes = 0 /\ phase \in {"running", "resolved"}) => progress = NoProgress)

\* An empty image next to a three-part image, the latter two thirds uploaded
C33_Witness ==
    /\ N = 2 /\ plan = 1
    /\ \E i, j \in Items : /\ screenshots[i] = PngUrl(0)
                           /\ requests[i].fate = "uploaded"
                           /\ screenshots[j] = PngUrl(MaxSize)
                           /\ requests[j].failedAttempts > 0
    /\ progress # NoProgress
    /\ progress.uploadedBytes = 2 /\ progress.percent = 67

\* C35: once stopCapture has been called during a running capture, that
\* capture sends no UPLOAD_SCREENSHOTS message, whichever await its loop was
\* suspended in when the stop arrived.
C35_Original ==
    \A r \in DOMAIN runs : runs[r].stopped => runs[r].upload = <<>>

\* C36: at most one capture run is in its capture phase at any time, also
\* when a stop followed by a start arrives while the earlier loop is still
\* suspended in an await.
C36_Original ==
    Cardinality(Capturing) <= 1

\* C37: every run ends with isCapturing = false and a final status update,
\* and the presentation loop, which is left once more than SafetyLimit
\* screenshots are held, never holds more than SafetyLimit + 1 of them.
C37_Original ==
    captureState.screenshots <= SafetyLimit + 1

\* C38: an ENSURE_CAPTURE_ZOOM that adjusts the zoom followed by
\* RESTORE_CAPTURE_ZOOM returns the tab to the zoom it had before the first
\* ENSURE and leaves no tabZoomState entry (once every handler has answered
\* with success, no ENSURE having run while a RESTORE was unanswered nor a
\* RESTORE while an ENSURE was, and the last message was a RESTORE, the tab
\* has the zoom it started with); no step replaces the value of an entry of
\* tabZoomState; an ENSURE that finds the zoom within the tolerance of 1
\* changes neither the zoom nor tabZoomState.
C38_RoundTrip ==
    LET n == Len(zoomHandlers)
    IN (/\ n > 0
        /\ \A h \in 1..n : /\ zoomHandlers[h].pc = "done"
                           /\ zoomHandlers[h].response[1].success
                           /\ zoomHandlers[h].apart
        /\ zoomHandlers[n].type = "RESTORE_CAPTURE_ZOOM")
       => /\ tabZoom[zoomHandlers[n].tab] = zoomHandlers[1].before
          /\ zoomHandlers[n].tab \notin DOMAIN tabZoomState

C38_NeverOverwrites ==
    \A t \in DOMAIN tabZoomState \cap DOMAIN tabZoomState' :
        tabZoomState'[t] = tabZoomState[t]

C38_NearChangesNothing ==
    \A h \in DOMAIN zoomHandlers :
        (/\ zoomHandlers[h].pc = "getZoom"
         /\ NearDefault(tabZoom[zoomHandlers[h].tab])
         /\ zoomHandlers'[h].pc = "done"
         /\ zoomHandlers'[h].response[1].success)
        => /\ tabZoom' = tabZoom
           /\ tabZoomState' = tabZoomState
           /\ ~zoomHandlers'[h].response[1].changed

C38_ZoomRoundTrip ==
    /\ []C38_RoundTrip
    /\ [][C38_NeverOverwrites /\ C38_NearChangesNothing]_allVars

\* An ENSURE adjusted the zoom of a tab at 150 %, a second ENSURE was answered
\* before the RESTORE, and the RESTORE put the tab back to 150 % and removed
\* the entry
C38_Witness ==
    /\ Len(zoomHandlers) = 3
    /\ \A h \in 1..3 : /\ zoomHandlers[h].pc = "done"
                       /\ zoomHandlers[h].response[1].success
                       /\ zoomHandlers[h].apart
    /\ zoomHandlers[1].type = "ENSURE_CAPTURE_ZOOM"
    /\ zoomHandlers[1].response[1].changed
    /\ zoomHandlers[2].type = "ENSURE_CAPTURE_ZOOM"
    /\ zoomHandlers[3].type = "RESTORE_CAPTURE_ZOOM"
    /\ zoomHandlers[3].response[1].changed
    /\ zoomHandlers[1].before = DefaultZoom + 500
    /\ tabZoom[zoomHandlers[3].tab] = DefaultZoom + 500
    /\ tabZoomState = <<>>

\* C39: a success or error shown for a later upload is not dismissed early by
\* the timer of an earlier message: as long as the timer of the latest
\* UPLOAD_SUCCESS or UPLOAD_ERROR message has not run out (3 seconds after a
\* success, 5 seconds after an error), the button still shows that message,
\* or "uploading" when a capture was completed meanwhile.
C39_Original ==
    LET n == Len(timers)
    IN (n > 0 /\ timers[n].due > clock)
       => button.uploadState \in {timers[n].type, "uploading"}

====
